---------------------------- MODULE Spec2Model ----------------------------
(***************************************************************************)
(* Verification model of the walb userspace core:                          *)
(*   - the wlog redo engine        (binsrc/wlog-redo.cpp),                 *)
(*   - the in-memory diff map      (walb_diff_mem.hpp, used by mergeIo),   *)
(*   - the streaming diff merger   (src/walb_diff_merge.hpp).              *)
(* Each subsystem has its own specification (SpecRedo, SpecDiffMap,        *)
(* SpecMerge); the variables of the other subsystems stay at their idle    *)
(* values.                                                                 *)
(***************************************************************************)
EXTENDS Integers, Sequences, FiniteSets, TLC

(***************************************************************************)
(* Bounds of the model.                                                    *)
(***************************************************************************)
MaxRecs == 2        \* log records read by one redo run
DevSizeLb == 2      \* size of the target device [logical blocks]

LOGICAL_BLOCK_SIZE == 512

Min(a, b) == IF a < b THEN a ELSE b

\* ceil(lb * 512 / pbs)
capacity_pb(pbs, lb) == (lb * LOGICAL_BLOCK_SIZE + pbs - 1) \div pbs

(***************************************************************************)
(* Content of one logical block on the device or in a buffer:              *)
(* <<n, k>> is logical block k of the payload of log record n.             *)
(***************************************************************************)
InitCell == <<-1, 0>>       \* content of the device before redo
ZeroCell == <<0, 0>>        \* a zero-filled logical block
DiscardedCell == <<-2, 0>>  \* a block deallocated by BLKDISCARD
PadCell == <<-3, 0>>        \* tail of a log block past the record's data

RECURSIVE Flatten(_)
Flatten(blocks) ==
    IF blocks = <<>> THEN <<>> ELSE Head(blocks).data \o Flatten(Tail(blocks))

(***************************************************************************)
(* class Io                                                                *)
(***************************************************************************)
NewIo(id, offset, size, block) ==
    [sequenceId |-> id, offset |-> offset, size |-> size,
     isSubmitted |-> FALSE, isCompleted |-> FALSE, isOverwritten |-> FALSE,
     blocks |-> <<block>>, nOverlapped |-> 0]

\* a slip of Io::overwritten: the flag is never set
overwritten_noFlag(p) == p

\* a slip of Io::overwritten: the buffers are kept
overwritten_keepBlocks(p) == [p EXCEPT !.isOverwritten = TRUE]

\* Io::overwritten
overwritten(p) ==
    IF p.isOverwritten THEN p
    ELSE [p EXCEPT !.isOverwritten = TRUE,
                   !.blocks = IF p.isSubmitted THEN @ ELSE <<>>]

\* a slip of Io::canMerge: the buffers are not compared
canMerge_offsetOnly(lhs, rhs) ==
    /\ lhs.blocks # <<>>
    /\ rhs.blocks # <<>>
    /\ lhs.offset + lhs.size = rhs.offset

\* Io::canMerge
canMerge(lhs, rhs) ==
    /\ lhs.blocks # <<>>
    /\ rhs.blocks # <<>>
    /\ lhs.offset + lhs.size = rhs.offset
    /\ lhs.blocks[1].addr + lhs.size = rhs.blocks[1].addr

\* Io::tryMerge, the merged Io (when canMerge holds)
mergedIo(lhs, rhs) ==
    [lhs EXCEPT !.size = lhs.size + rhs.size, !.blocks = lhs.blocks \o rhs.blocks]

\* a slip of Io::isOverlapped: only the start of rhs is tested
isOverlapped_startOnly(p, rhs) ==
    p.offset <= rhs.offset /\ rhs.offset < p.offset + p.size

\* Io::isOverlapped
isOverlapped(p, rhs) ==
    p.offset < rhs.offset + rhs.size /\ rhs.offset < p.offset + p.size

\* Io::isOverwrittenBy
isOverwrittenBy(p, rhs) ==
    rhs.offset <= p.offset /\ p.offset + p.size <= rhs.offset + rhs.size

\* The bytes a submitted write carries: size bytes from the front buffer on.
WriteCells(p) == SubSeq(Flatten(p.blocks), 1, p.size \div LOGICAL_BLOCK_SIZE)

(***************************************************************************)
(* class IoQueue                                                           *)
(***************************************************************************)
maxIoSize_ == 1024 * 1024

\* a slip of IoQueue::tryMerge: the size limit is not tested
IoQueueCanMerge_noLimit(io0, io1) == canMerge(io0, io1)

\* IoQueue::tryMerge
IoQueueCanMerge(io0, io1) ==
    /\ ~(maxIoSize_ < io0.size + io1.size)
    /\ canMerge(io0, io1)

\* IoQueue::add
IoQueueAdd(q, iop) ==
    IF q = <<>> THEN <<iop>>
    ELSE IF IoQueueCanMerge(q[Len(q)], iop)
         THEN [q EXCEPT ![Len(q)] = mergedIo(q[Len(q)], iop)]
         ELSE Append(q, iop)

(***************************************************************************)
(* State.                                                                  *)
(***************************************************************************)
VARIABLES
    cfg,      \* redo: blockSize_, bufferSize, wh_.pbs, device size, Config
    pc,       \* redo: position of the redo thread
    ret,      \* redo: return positions of the calls in progress
    err,      \* redo: how the run failed, "none" while it has not
    passNo,   \* redo: 1 for the first run over the log, 2 for the repeated run
    log,      \* redo: the records read so far by the first run
    nRead,    \* redo: records read by the current run
    loc,      \* redo: locals of redoNormalIo / redoDiscard / wait
    app,      \* redo: fields of WalbLogApplyer (queues, overlap data, aio, stats)
    dev,      \* redo: content of the target device, per logical block
    refDev,   \* redo: the device had every IO been written synchronously
    dev1      \* redo: content of the device when the first run ended

redoVars == <<cfg, pc, ret, err, passNo, log, nRead, loc, app, dev, refDev, dev1>>

VARIABLES
    walbDiff,     \* diff map: the entries of the map, in address order
    maxIoBlocks,  \* diff map: the split limit of the map, 0 for none
    nAdded,       \* diff map: number of add calls so far
    lastAdd,      \* diff map: record and payload of the last add
    prevContent   \* diff map: what the map read before the last add

diffVars == <<walbDiff, maxIoBlocks, nAdded, lastAdd, prevContent>>

VARIABLES
    inputs,       \* merger: the chain of input streams, oldest first
    wdiffs_,      \* merger: the open streams, what is left of each
    diffMem_,     \* merger: the scratch diff map
    mergedQ_,     \* merger: the output queue
    doneAddr_,    \* merger: minimum front address of the open streams
    searchLen_,   \* merger: search window [logical block]
    maxIoBlocks_, \* merger: split limit of the output, 0 for none
    merged,       \* merger: the records getAndRemove has returned
    nBatch,       \* merger: number of moves to the output queue
    lastPops,     \* merger: the records the last pass popped, each with the
                  \*         doneAddr_, searchLen_ and bound it was tested with
    mstate        \* merger: "run", "end" once getAndRemove has returned false

mergeVars == <<inputs, wdiffs_, diffMem_, mergedQ_, doneAddr_, searchLen_,
               maxIoBlocks_, merged, nBatch, lastPops, mstate>>

VARIABLES
    header_,      \* pack header: the fields of the header block and its records
    pbs_,         \* pack header: physical block size of the log
    packCall      \* pack header: the last call made on the header and its result

packVars == <<header_, pbs_, packCall>>

VARIABLES
    block_,       \* checksum: the header block as 32-bit words, checksum first
    salt_,        \* checksum: the salt of the log device
    blockState    \* checksum: "built", "written", "flipped", then what the
                  \*           reader's isValid(true) found: "valid", "invalid"

csumVars == <<block_, salt_, blockState>>

VARIABLES
    conv,         \* converter: locals of Converter::convert and where it is
    wlogIn        \* converter: the log records read so far, in log order

convVars == <<conv, wlogIn>>

VARIABLES
    rec_,         \* diff record: the fields of one struct walb_diff_record
    recCall       \* diff record: the last call made on the record and its result

recVars == <<rec_, recCall>>

VARIABLES
    ioQueue,      \* IO queue: IoQueue::ioQ_, the IOs staged by redoNormalIo
    ioqCall       \* IO queue: the last call made on the queue and its argument

ioqVars == <<ioQueue, ioqCall>>

vars == <<redoVars, diffVars, mergeVars, packVars, csumVars, convVars, recVars, ioqVars>>

PackIdle == header_ = <<>> /\ pbs_ = 0 /\ packCall = <<>>

CsumIdle == block_ = <<>> /\ salt_ = <<>> /\ blockState = "idle"

ConvIdle == conv = <<>> /\ wlogIn = <<>>

RecIdle == rec_ = <<>> /\ recCall = <<>>

IoqIdle == ioQueue = <<>> /\ ioqCall = <<>>

MergeIdle ==
    /\ inputs = <<>> /\ wdiffs_ = <<>> /\ diffMem_ = <<>> /\ mergedQ_ = <<>>
    /\ doneAddr_ = 0 /\ searchLen_ = 0 /\ maxIoBlocks_ = 0
    /\ merged = <<>> /\ nBatch = 0 /\ lastPops = <<>> /\ mstate = "idle"

RedoIdle ==
    /\ cfg = <<>> /\ pc = "idle" /\ ret = <<>> /\ err = "none" /\ passNo = 0
    /\ log = <<>> /\ nRead = 0 /\ loc = <<>> /\ app = <<>>
    /\ dev = <<>> /\ refDev = <<>> /\ dev1 = <<>>

DiffIdle ==
    /\ walbDiff = <<>> /\ maxIoBlocks = 0 /\ nAdded = 0
    /\ lastAdd = <<>> /\ prevContent = <<>>

\* WalbLogApplyer::getQueueSizeStatic
getQueueSizeStatic(bufferSize, blockSize) == bufferSize \div blockSize

\* WalbLogApplyer::queueSize_
queueSize_ == getQueueSizeStatic(cfg.bufferSize, cfg.blockSize_)

(***************************************************************************)
(* class OverlappedData, over the applier record m                         *)
(***************************************************************************)
\* a slip of the windowed scan: it starts at the offset of iop
ScanWindow_noBack(m, iop) ==
    {p \in m.set_ : m.io[p].offset >= iop.offset
                        /\ m.io[p].offset < iop.offset + iop.size}

\* The set entries the windowed scan of ins/del visits: lower_bound(key0)
\* up to the first key >= key1.
ScanWindow(m, iop) ==
    LET key0 == IF m.maxSize_ < iop.offset THEN iop.offset - m.maxSize_ ELSE 0
        key1 == iop.offset + iop.size
    IN {p \in m.set_ : m.io[p].offset >= key0 /\ m.io[p].offset < key1}

\* OverlappedData::ins; iop is not yet in m.io
ins(m, iop) ==
    LET ov == {p \in ScanWindow(m, iop) : isOverlapped(m.io[p], iop)}
        ow == {p \in ov : isOverwrittenBy(m.io[p], iop)}
        new == [iop EXCEPT !.nOverlapped = Cardinality(ov)]
    IN [m EXCEPT
          !.io = [q \in DOMAIN m.io \cup {iop.sequenceId} |->
                    IF q = iop.sequenceId THEN new
                    ELSE IF q \in ow THEN overwritten(m.io[q]) ELSE m.io[q]],
          !.set_ = @ \cup {iop.sequenceId},
          !.maxSize_ = IF @ < iop.size THEN iop.size ELSE @,
          !.elided = @ \cup {q \in ow : ~m.io[q].isSubmitted}]

\* std::set order of the overlap data: by offset, then by pointer
RECURSIVE SetOrder(_, _)
SetOrder(m, S) ==
    IF S = {} THEN <<>>
    ELSE LET p == CHOOSE x \in S : \A y \in S :
                    \/ m.io[x].offset < m.io[y].offset
                    \/ (m.io[x].offset = m.io[y].offset /\ x <= y)
         IN <<p>> \o SetOrder(m, S \ {p})

\* a slip of OverlappedData::del: the IO leaves the set and the IOs it
\* overlaps keep their count
del_noDecrement(m, id) ==
    [m EXCEPT !.set_ = @ \ {id},
              !.maxSize_ = IF m.set_ \ {id} = {} THEN 0 ELSE @,
              !.tmpQ = <<>>]

\* OverlappedData::del; the result carries the queue of IOs whose
\* nOverlapped became 0 in the field tmpQ
del(m, id) ==
    LET iop == m.io[id]
        m1 == [m EXCEPT !.set_ = @ \ {id}]
        m2 == [m1 EXCEPT !.maxSize_ = IF m1.set_ = {} THEN 0 ELSE @]
        ov == {p \in ScanWindow(m2, iop) : isOverlapped(m2.io[p], iop)}
        \* unsigned --: 0 wraps to UINT_MAX, written -1 here
        dec(p) == m2.io[p].nOverlapped - 1
    IN [m2 EXCEPT
          !.io = [q \in DOMAIN m2.io |->
                    IF q \in ov THEN [m2.io[q] EXCEPT !.nOverlapped = dec(q)]
                    ELSE m2.io[q]],
          !.tmpQ = SetOrder(m2, {p \in ov : dec(p) = 0})]


(***************************************************************************)
(* class WalbLogApplyer, over the applier record m                         *)
(***************************************************************************)
Range(q) == {q[k] : k \in 1..Len(q)}

\* An Io object lives as long as a queue or the overlap data points to it.
Release(m) ==
    LET live == Range(m.ioQ_) \cup Range(m.readyIoQ_) \cup Range(m.submitIoQ_)
                    \cup m.set_
    IN [m EXCEPT !.io = [q \in DOMAIN m.io \cap live |-> m.io[q]]]

\* A failed assert() of the source is recorded, the first one wins.
Check(m, cond, name) ==
    IF cond \/ m.bad # "none" THEN m ELSE [m EXCEPT !.bad = name]

\* a slip of WalbLogApplyer::bytesToPb: logical blocks, not physical ones
bytesToPb_lb(bytes) == bytes \div LOGICAL_BLOCK_SIZE

\* WalbLogApplyer::bytesToPb
bytesToPb(bytes) == capacity_pb(cfg.blockSize_, bytes \div LOGICAL_BLOCK_SIZE)

\* WalbLogApplyer::submitIos, one pass of its loop per call
RECURSIVE submitLoop(_)
submitLoop(m) ==
    IF m.submitIoQ_ = <<>> THEN m
    ELSE LET id == Head(m.submitIoQ_)
             m1 == [m EXCEPT !.submitIoQ_ = Tail(@)]
         IN IF m.io[id].isOverwritten THEN submitLoop(m1)
            ELSE submitLoop(
                   [Check(m1, m.io[id].nOverlapped = 0, "submitIos:nOverlapped")
                      EXCEPT !.io[id].isSubmitted = TRUE,
                             !.aioPending = @ \cup {id},
                             !.subEver = @ \cup {id}])

\* WalbLogApplyer::submitIos
submitIos(m) ==
    IF m.submitIoQ_ = <<>> THEN m
    ELSE submitLoop(Check(m, Len(m.submitIoQ_) <= queueSize_,
                          "submitIos:size"))

\* std::lower_bound on the submit queue with cmp = offset less-than
LowerBound(m, q, id) ==
    LET ge == {k \in 1..Len(q) : ~(m.io[q[k]].offset < m.io[id].offset)}
    IN IF ge = {} THEN Len(q) + 1 ELSE CHOOSE k \in ge : \A j \in ge : k <= j

InsertAt(q, k, x) == SubSeq(q, 1, k - 1) \o <<x>> \o SubSeq(q, k, Len(q))

\* WalbLogApplyer::scheduleIos, one pass of its loop per call
RECURSIVE scheduleLoop(_)
scheduleLoop(m) ==
    IF m.readyIoQ_ = <<>> THEN m
    ELSE LET id == Head(m.readyIoQ_)
             m1 == [m EXCEPT !.readyIoQ_ = Tail(@)]
         IN IF m.io[id].isOverwritten THEN scheduleLoop(m1)
            ELSE LET m2 == [m1 EXCEPT !.submitIoQ_ =
                               InsertAt(@, LowerBound(m1, @, id), id)]
                 IN scheduleLoop(IF queueSize_ <= Len(m2.submitIoQ_)
                                 THEN submitIos(m2) ELSE m2)

\* WalbLogApplyer::scheduleIos
scheduleIos(m) ==
    scheduleLoop(Check(m, Len(m.readyIoQ_) <= queueSize_,
                       "scheduleIos:size"))

\* a slip of waitForAnIoCompletion: the popped IO is waited for without
\* the flush of readyIoQ_ and submitIoQ_
waitBegin_noFlush(m) == [m EXCEPT !.ioQ_ = Tail(@)]

\* WalbLogApplyer::waitForAnIoCompletion up to the call of aio_.waitFor
waitBegin(m) ==
    LET id == Head(m.ioQ_)
        m1 == [m EXCEPT !.ioQ_ = Tail(@)]
    IN IF ~m.io[id].isSubmitted /\ ~m.io[id].isOverwritten
       THEN submitIos(scheduleIos(m1)) ELSE m1

\* the readyIoQ_.push_front loop of waitForAnIoCompletion
RECURSIVE pushFront(_, _)
pushFront(m, q) ==
    IF q = <<>> THEN m
    ELSE IF m.io[Head(q)].isOverwritten THEN pushFront(m, Tail(q))
    ELSE pushFront([Check(m, m.io[Head(q)].nOverlapped = 0, "wait:nOverlapped")
                      EXCEPT !.readyIoQ_ = <<Head(q)>> \o @], Tail(q))

\* a slip of waitForAnIoCompletion: the IO is neither counted in nWritten_
\* nor in nOverwritten_
waitEnd_uncounted(m, id) ==
    LET m2 == [m EXCEPT !.aioDone = @ \ {id},
                        !.io[id].isCompleted = m.io[id].isSubmitted,
                        !.nPendingBlocks_ = @ - bytesToPb(m.io[id].size)]
        m3 == del(m2, id)
    IN Release([pushFront(m3, m3.tmpQ) EXCEPT !.tmpQ = <<>>])

\* WalbLogApplyer::waitForAnIoCompletion from the return of aio_.waitFor on
waitEnd(m, id) ==
    LET p == m.io[id]
        m1 == IF p.isSubmitted
              THEN [Check(m, ~p.isCompleted, "wait:isCompleted")
                      EXCEPT !.aioDone = @ \ {id},
                             !.io[id].isCompleted = TRUE,
                             !.nWritten_ = @ + 1]
              ELSE [Check(m, p.isOverwritten, "wait:isOverwritten")
                      EXCEPT !.nOverwritten_ = @ + 1]
        m2 == [m1 EXCEPT !.nPendingBlocks_ = @ - bytesToPb(p.size)]
        m3 == del(Check(m2, m2.io[id].nOverlapped = 0, "del:nOverlapped"), id)
    IN Release([pushFront(m3, m3.tmpQ) EXCEPT !.tmpQ = <<>>])

\* the enqueue loop of WalbLogApplyer::prepareIos; buffer addresses are
\* read by IoQueue only, so an Io joins the applier without them
Unplaced(iop) ==
    [iop EXCEPT !.blocks = [k \in 1..Len(@) |-> [@[k] EXCEPT !.addr = 0]]]

RECURSIVE enqueueLoop(_, _)
enqueueLoop(m, q) ==
    IF q = <<>> THEN m
    ELSE LET id == Head(q).sequenceId
             m1 == ins(m, Unplaced(Head(q)))
             m2 == IF m1.io[id].nOverlapped = 0
                   THEN [m1 EXCEPT !.readyIoQ_ = Append(@, id)] ELSE m1
         IN enqueueLoop([m2 EXCEPT !.ioQ_ = Append(@, id),
                                   !.nIos = @ + 1], Tail(q))

\* WalbLogApplyer::prepareIos after its wait loop, and the scheduleIos()
\* that follows every call of prepareIos
prepareIos(m, q, nBlocks) ==
    scheduleIos(enqueueLoop([m EXCEPT !.nPendingBlocks_ = @ + nBlocks], q))

\* WalbLogApplyer::WalbLogApplyer
NewApplyer ==
    [io |-> <<>>, ioQ_ |-> <<>>, readyIoQ_ |-> <<>>, submitIoQ_ |-> <<>>,
     nPendingBlocks_ |-> 0, set_ |-> {}, maxSize_ |-> 0,
     nWritten_ |-> 0, nOverwritten_ |-> 0, nClipped_ |-> 0,
     nDiscard_ |-> 0, nPadding_ |-> 0,
     aioPending |-> {}, aioDone |-> {}, tmpQ |-> <<>>,
     seq |-> 0, bad |-> "none",
     \* history, not program state
     elided |-> {}, subEver |-> {}, nIos |-> 0]


(***************************************************************************)
(* Inputs of a redo run.                                                   *)
(***************************************************************************)
BlockSizes == {LOGICAL_BLOCK_SIZE, 2 * LOGICAL_BLOCK_SIZE}
BufferSizes == {2 * LOGICAL_BLOCK_SIZE, 4 * LOGICAL_BLOCK_SIZE}

\* wh_.pbs(), the physical block size the log was written with
LogPbs == BlockSizes \cup {3 * LOGICAL_BLOCK_SIZE}

\* Config: -d is "issue", -z is "zero", neither is "ignore"
DiscardModes == {"ignore", "issue", "zero"}

\* The appliers the constructor builds: getQueueSizeStatic throws unless
\* the buffer is larger than a block of the device.
Configs ==
    {c \in [blockSize_ : BlockSizes, pbs : LogPbs, bufferSize : BufferSizes,
            devSize : {DevSizeLb * LOGICAL_BLOCK_SIZE}, discard : DiscardModes] :
        c.blockSize_ < c.bufferSize}

\* log records: offset and io_size in logical blocks
Records ==
    [kind : {"normal", "discard"}, offset : 0..(DevSizeLb - 1), io_size : 1..2]
        \cup [kind : {"padding"}, offset : {0}, io_size : {0, 2}]

\* LogRecord::ioSizePb
ioSizePb(r) == capacity_pb(cfg.pbs, r.io_size)

IdleLoc ==
    [rec |-> [kind |-> "none", offset |-> 0, io_size |-> 0], i |-> 0,
     remaining |-> 0, off |-> 0, nBlocks |-> 0, tmpIoQ |-> <<>>,
     lastEnd |-> 0, iop |-> 0, hdr |-> "none"]

InitRedo ==
    /\ cfg \in Configs
    /\ pc = "header"
    /\ ret = <<>>
    /\ err = "none"
    /\ passNo = 1
    /\ log = <<>>
    /\ nRead = 0
    /\ loc = IdleLoc
    /\ app = NewApplyer
    /\ dev = [x \in 0..(DevSizeLb - 1) |-> InitCell]
    /\ refDev = [x \in 0..(DevSizeLb - 1) |-> InitCell]
    /\ dev1 = <<>>
    /\ DiffIdle
    /\ MergeIdle
    /\ PackIdle
    /\ CsumIdle
    /\ ConvIdle
    /\ RecIdle
    /\ IoqIdle

\* The device after the write of iop: the blocks past its end do not exist.
Write(d, iop) ==
    LET first == iop.offset \div LOGICAL_BLOCK_SIZE
        n == iop.size \div LOGICAL_BLOCK_SIZE
    IN [x \in DOMAIN d |->
          IF first <= x /\ x < first + n THEN WriteCells(iop)[x - first + 1]
          ELSE d[x]]

\* a slip of WalbLogApplyer::canApply: the multiple is not tested
canApply_sizeOnly == cfg.blockSize_ <= cfg.pbs

\* WalbLogApplyer::canApply
canApply == cfg.blockSize_ <= cfg.pbs /\ cfg.pbs % cfg.blockSize_ = 0

\* The next record of the input: the first run reads any log, the repeated
\* run the same log again.
Reads(r) ==
    /\ pc = "read"
    /\ IF passNo = 1 THEN nRead < MaxRecs /\ r \in Records /\ log' = Append(log, r)
       ELSE nRead < Len(log) /\ r = log[nRead + 1] /\ log' = log
    /\ nRead' = nRead + 1

\* A thread step moves app to m.  The first assert() that fails stops the
\* run in a build with assert() compiled in and is passed over in a build
\* without; a run that has passed over one is of the latter build.
Step(m, nextPc, nextRet, nextLoc) ==
    \/ /\ m.bad = "none" \/ app.bad # "none"
       /\ app' = m /\ pc' = nextPc /\ ret' = nextRet /\ loc' = nextLoc
       /\ err' = err
    \/ /\ m.bad # "none" /\ app.bad = "none"
       /\ \/ /\ app' = m /\ pc' = "error" /\ ret' = <<>> /\ loc' = IdleLoc
             /\ err' = m.bad
          \/ /\ app' = m /\ pc' = nextPc /\ ret' = nextRet /\ loc' = nextLoc
             /\ err' = err

\* WalbLogApplyer::readAndApply, lines 514-519
ReadHeader ==
    /\ pc = "header"
    /\ IF canApply THEN pc' = "read" /\ err' = err
       ELSE pc' = "error" /\ err' = "canApply"
    /\ UNCHANGED <<diffVars, mergeVars, packVars, csumVars, convVars, recVars, ioqVars, cfg, ret, passNo, log, nRead, loc, app, dev, refDev, dev1>>

\* a slip of redoPack: a padding record adds one to nPadding_
RedoPadding_byOne ==
    \E r \in Records :
        /\ Reads(r)
        /\ r.kind = "padding"
        /\ app' = [app EXCEPT !.nPadding_ = @ + 1]
        /\ UNCHANGED <<diffVars, mergeVars, packVars, csumVars, convVars, recVars, ioqVars, cfg, pc, ret, err, passNo, loc, dev, refDev, dev1>>

\* WalbLogApplyer::redoPack, a padding record
RedoPadding ==
    \E r \in Records :
        /\ Reads(r)
        /\ r.kind = "padding"
        /\ app' = [app EXCEPT !.nPadding_ = @ + ioSizePb(r)]
        /\ UNCHANGED <<diffVars, mergeVars, packVars, csumVars, convVars, recVars, ioqVars, cfg, pc, ret, err, passNo, loc, dev, refDev, dev1>>

\* WalbLogApplyer::redoPack, a discard record without -d and -z
RedoDiscardIgnore ==
    \E r \in Records :
        /\ Reads(r)
        /\ r.kind = "discard" /\ cfg.discard = "ignore"
        /\ app' = [app EXCEPT !.nDiscard_ = @ + ioSizePb(r)]
        /\ UNCHANGED <<diffVars, mergeVars, packVars, csumVars, convVars, recVars, ioqVars, cfg, pc, ret, err, passNo, loc, dev, refDev, dev1>>

\* WalbLogApplyer::redoPack and redoDiscard up to waitForAllPendingIos
RedoDiscardBegin ==
    \E r \in Records :
        /\ Reads(r)
        /\ r.kind = "discard" /\ cfg.discard = "issue"
        /\ pc' = "drain"
        /\ ret' = <<"discard">>
        /\ loc' = [IdleLoc EXCEPT !.rec = r]
        /\ UNCHANGED <<diffVars, mergeVars, packVars, csumVars, convVars, recVars, ioqVars, cfg, err, passNo, app, dev, refDev, dev1>>

\* WalbLogApplyer::redoNormalIo, lines 799-804
RedoNormalBegin ==
    \E r \in Records :
        /\ Reads(r)
        /\ r.kind = "normal" \/ (r.kind = "discard" /\ cfg.discard = "zero")
        /\ pc' = "loop"
        /\ loc' = [IdleLoc EXCEPT !.rec = r,
                                  !.remaining = r.io_size * LOGICAL_BLOCK_SIZE,
                                  !.off = r.offset * LOGICAL_BLOCK_SIZE]
        /\ UNCHANGED <<diffVars, mergeVars, packVars, csumVars, convVars, recVars, ioqVars, cfg, ret, err, passNo, app, dev, refDev, dev1>>

\* The buffer of block i of the record being redone: a fresh zeroed block
\* of the device's block size for a discard, block i of the log otherwise.
BlockData(r, n, i) ==
    IF r.kind = "discard"
    THEN [k \in 1..(cfg.blockSize_ \div LOGICAL_BLOCK_SIZE) |-> ZeroCell]
    ELSE [k \in 1..(cfg.pbs \div LOGICAL_BLOCK_SIZE) |->
            LET j == i * (cfg.pbs \div LOGICAL_BLOCK_SIZE) + (k - 1)
            IN IF j < r.io_size THEN <<n, j>> ELSE PadCell]

\* slips of the clip test: the end of the device one block too far, and
\* the start of the IO tested instead of its end
isInRange_offByOne(iop) ==
    iop.offset + iop.size <= cfg.devSize + LOGICAL_BLOCK_SIZE

isInRange_startOnly(iop) == iop.offset < cfg.devSize

\* WalbLogApplyer::redoNormalIo, the clip test of line 818
isInRange(iop) == iop.offset + iop.size <= cfg.devSize

\* WalbLogApplyer::redoNormalIo, one pass of the loop of lines 805-834;
\* the allocator places the buffer right after the previous one or not
RedoNormalLoop ==
    /\ pc = "loop"
    /\ loc.i < ioSizePb(loc.rec)
    /\ \E contig \in BOOLEAN :
        LET data == BlockData(loc.rec, nRead, loc.i)
            addr == IF contig THEN loc.lastEnd
                    ELSE loc.lastEnd + LOGICAL_BLOCK_SIZE
            size == Min(cfg.blockSize_, loc.remaining)
            iop == NewIo(app.seq, loc.off, size, [addr |-> addr, data |-> data])
            inRange == isInRange(iop)
            isDiscard == loc.rec.kind = "discard"
            nBlocks == IF inRange THEN loc.nBlocks + 1 ELSE loc.nBlocks
            call == queueSize_ \div 2 <= nBlocks
        IN /\ loc.i = 0 => contig
           /\ app' = [app EXCEPT
                        !.seq = @ + 1,
                        !.nDiscard_ = IF inRange /\ isDiscard THEN @ + 1 ELSE @,
                        !.nClipped_ = IF inRange THEN @ ELSE @ + 1]
           /\ loc' = [loc EXCEPT
                        !.i = @ + 1,
                        !.off = @ + size,
                        !.remaining = @ - size,
                        !.nBlocks = nBlocks,
                        !.lastEnd = addr + Len(data) * LOGICAL_BLOCK_SIZE,
                        !.tmpIoQ = IF inRange THEN IoQueueAdd(@, iop) ELSE @]
           /\ refDev' = IF inRange THEN Write(refDev, iop) ELSE refDev
           /\ pc' = IF call THEN "prepare" ELSE "loop"
           /\ ret' = IF call THEN <<"loop">> ELSE ret
    /\ UNCHANGED <<diffVars, mergeVars, packVars, csumVars, convVars, recVars, ioqVars, cfg, err, passNo, log, nRead, dev, dev1>>

\* WalbLogApplyer::redoNormalIo, lines 835-836: assert(remaining == 0)
\* and the call of prepareIos
RedoNormalEnd ==
    /\ pc = "loop"
    /\ loc.i = ioSizePb(loc.rec)
    /\ Step(Check(app, loc.remaining = 0, "redoNormalIo:remaining"),
            "prepare", <<"read">>, loc)
    /\ UNCHANGED <<diffVars, mergeVars, packVars, csumVars, convVars, recVars, ioqVars, cfg, passNo, log, nRead, dev, refDev, dev1>>

\* WalbLogApplyer::prepareIos, one pass of its wait loop up to aio_.waitFor
PrepareWait ==
    /\ pc = "prepare"
    /\ app.ioQ_ # <<>>
    /\ queueSize_ < app.nPendingBlocks_ + loc.nBlocks
    /\ Step(Check(waitBegin(app), loc.nBlocks <= queueSize_, "prepareIos:nBlocks"),
            "wait", <<"prepare">> \o ret, [loc EXCEPT !.iop = Head(app.ioQ_)])
    /\ UNCHANGED <<diffVars, mergeVars, packVars, csumVars, convVars, recVars, ioqVars, cfg, passNo, log, nRead, dev, refDev, dev1>>

\* WalbLogApplyer::prepareIos after its wait loop, then scheduleIos
PrepareEnqueue ==
    /\ pc = "prepare"
    /\ ~(app.ioQ_ # <<>> /\ queueSize_ < app.nPendingBlocks_ + loc.nBlocks)
    /\ Step(Check(prepareIos(app, loc.tmpIoQ, loc.nBlocks),
                  loc.nBlocks <= queueSize_, "prepareIos:nBlocks"),
            Head(ret), Tail(ret),
            IF Head(ret) = "read" THEN IdleLoc
            ELSE [loc EXCEPT !.nBlocks = 0, !.tmpIoQ = <<>>])
    /\ UNCHANGED <<diffVars, mergeVars, packVars, csumVars, convVars, recVars, ioqVars, cfg, passNo, log, nRead, dev, refDev, dev1>>

\* WalbLogApplyer::waitForAnIoCompletion from the return of aio_.waitFor,
\* which returns once the device has completed the write
WaitEnd ==
    /\ pc = "wait"
    /\ app.io[loc.iop].isSubmitted => loc.iop \in app.aioDone
    /\ Step(waitEnd(app, loc.iop), Head(ret), Tail(ret), [loc EXCEPT !.iop = 0])
    /\ UNCHANGED <<diffVars, mergeVars, packVars, csumVars, convVars, recVars, ioqVars, cfg, passNo, log, nRead, dev, refDev, dev1>>

\* what reader.read(header_, pbs_) meets where the next pack header is due
HeaderReads == {"valid", "eof", "short read"}

\* LogPackHeader::readFrom: false if the read failed or the header is
\* invalid
readFrom(h) == h = "valid"

\* LogRecord::hasDataForChecksum
hasDataForChecksum(r) == r.kind = "normal"

\* a slip of readAndApply: the mismatch is reported and the record
\* skipped, as with isLogChecksumValid
ChecksumMismatch_skipped ==
    \E r \in Records :
        /\ pc = "read" /\ passNo = 1 /\ nRead < MaxRecs
        /\ hasDataForChecksum(r)
        /\ err' = "invalid checksum"
        /\ UNCHANGED <<diffVars, mergeVars, packVars, csumVars, convVars, recVars, ioqVars, cfg, pc, ret, passNo, log, nRead,
                       loc, app, dev, refDev, dev1>>

\* WalbLogApplyer::readAndApply, lines 532-534: verifyLogChecksum throws
\* for a record whose payload does not match its checksum
ChecksumMismatch ==
    \E r \in Records :
        /\ pc = "read" /\ passNo = 1 /\ nRead < MaxRecs
        /\ hasDataForChecksum(r)
        /\ pc' = "error"
        /\ err' = "invalid checksum"
        /\ loc' = [IdleLoc EXCEPT !.rec = r]
        /\ UNCHANGED <<diffVars, mergeVars, packVars, csumVars, convVars, recVars, ioqVars, cfg, ret, passNo, log, nRead,
                       app, dev, refDev, dev1>>

\* WalbLogApplyer::readAndApply, lines 543-545: the log has ended
ReadEnd ==
    /\ pc = "read"
    /\ passNo = 2 => nRead = Len(log)
    /\ \E h \in HeaderReads :
          /\ ~readFrom(h)
          /\ Step(submitIos(app), "drain", <<"final">>, [loc EXCEPT !.hdr = h])
    /\ UNCHANGED <<diffVars, mergeVars, packVars, csumVars, convVars, recVars, ioqVars, cfg, passNo, log, nRead, dev, refDev, dev1>>

\* WalbLogApplyer::waitForAllPendingIos, one pass of its loop up to
\* aio_.waitFor; front() of an empty ioQ_ is undefined
DrainWait ==
    /\ pc = "drain"
    /\ app.ioQ_ # <<>> \/ app.readyIoQ_ # <<>>
    /\ IF app.ioQ_ = <<>>
       THEN /\ pc' = "error" /\ err' = "wait:ioQ_.empty" /\ ret' = <<>>
            /\ UNCHANGED <<app, loc>>
       ELSE Step(waitBegin(app), "wait", <<"drain">> \o ret,
                 [loc EXCEPT !.iop = Head(app.ioQ_)])
    /\ UNCHANGED <<diffVars, mergeVars, packVars, csumVars, convVars, recVars, ioqVars, cfg, passNo, log, nRead, dev, refDev, dev1>>

\* a slip of waitForAllPendingIos: it returns without waiting
DrainEmpty_noWait == pc = "drain"

\* WalbLogApplyer::waitForAllPendingIos, its loop has ended
DrainEmpty == pc = "drain" /\ app.ioQ_ = <<>> /\ app.readyIoQ_ = <<>>

\* WalbLogApplyer::readAndApply, lines 547-557: fdatasync and the statistics
Finish ==
    /\ DrainEmpty
    /\ Head(ret) = "final"
    /\ Step(Check(app, app.set_ = {}, "waitForAllPendingIos:olData_"),
            "done", <<>>, IdleLoc)
    /\ UNCHANGED <<diffVars, mergeVars, packVars, csumVars, convVars, recVars, ioqVars, cfg, passNo, log, nRead, dev, refDev, dev1>>

\* WalbLogApplyer::redoDiscard, lines 593-601: BLKDISCARD fails past the
\* end of the device
IssueDiscard ==
    /\ DrainEmpty
    /\ Head(ret) = "discard"
    /\ LET first == loc.rec.offset
           last == loc.rec.offset + loc.rec.io_size
           gone(d) == [x \in DOMAIN d |->
                         IF first <= x /\ x < last THEN DiscardedCell ELSE d[x]]
           m == Check(app, app.set_ = {}, "waitForAllPendingIos:olData_")
       IN IF last * LOGICAL_BLOCK_SIZE <= cfg.devSize
          THEN /\ Step([m EXCEPT !.nDiscard_ = @ + ioSizePb(loc.rec)],
                       "read", <<>>, IdleLoc)
               /\ dev' = IF pc' = "error" THEN dev ELSE gone(dev)
               /\ refDev' = IF pc' = "error" THEN refDev ELSE gone(refDev)
          ELSE /\ pc' = "error" /\ err' = "discard command failed"
               /\ ret' = <<>> /\ loc' = IdleLoc
               /\ UNCHANGED <<app, dev, refDev>>
    /\ UNCHANGED <<diffVars, mergeVars, packVars, csumVars, convVars, recVars, ioqVars, cfg, passNo, log, nRead, dev1>>

\* The device completes a write in flight, in any order.
DeviceComplete ==
    \E id \in app.aioPending :
        /\ dev' = Write(dev, app.io[id])
        /\ app' = [app EXCEPT !.aioPending = @ \ {id}, !.aioDone = @ \cup {id}]
        /\ UNCHANGED <<diffVars, mergeVars, packVars, csumVars, convVars, recVars, ioqVars, cfg, pc, ret, err, passNo, log, nRead, loc, refDev, dev1>>

\* wlog-redo is run again on the same log and the same device.
RunAgain ==
    /\ pc = "done"
    /\ passNo = 1
    /\ passNo' = 2
    /\ pc' = "header"
    /\ nRead' = 0
    /\ app' = NewApplyer
    /\ dev1' = dev
    /\ UNCHANGED <<diffVars, mergeVars, packVars, csumVars, convVars, recVars, ioqVars, cfg, ret, err, log, loc, dev, refDev>>

NextRedo ==
    \/ ReadHeader
    \/ RedoPadding
    \/ RedoDiscardIgnore
    \/ RedoDiscardBegin
    \/ RedoNormalBegin
    \/ RedoNormalLoop
    \/ RedoNormalEnd
    \/ PrepareWait
    \/ PrepareEnqueue
    \/ WaitEnd
    \/ ReadEnd
    \/ DrainWait
    \/ Finish
    \/ IssueDiscard
    \/ DeviceComplete
    \/ RunAgain
    \/ ChecksumMismatch

SpecRedo == InitRedo /\ [][NextRedo]_vars

\* the run has not ended: the thread has a next step, or waits in
\* aio_.waitFor for a write the device holds
RedoRunning == pc # "error" /\ ~(pc = "done" /\ passNo = 2)

\* the redo run with a thread that keeps running and a device that
\* completes every write submitted to it: WF_vars(NextRedo), with
\* ENABLED <<NextRedo>>_vars written out as RedoRunning
SpecRedoLive ==
    /\ InitRedo
    /\ [][NextRedo]_vars
    /\ ([]<>(~RedoRunning) \/ []<><<NextRedo>>_vars)

(***************************************************************************)
(* Properties of the redo engine.                                          *)
(***************************************************************************)
\* the logical blocks of the device an IO targets
Lbs(p) ==
    {x \in 0..(DevSizeLb + 2) :
        p.offset <= x * LOGICAL_BLOCK_SIZE
            /\ x * LOGICAL_BLOCK_SIZE < p.offset + p.size}

AllIos == {app.io[id] : id \in DOMAIN app.io} \cup Range(loc.tmpIoQ)

InitDev == [x \in 0..(DevSizeLb - 1) |-> InitCell]

\* C1: of two IOs with overlapping ranges the later one (in io_q order) is
\* submitted only after the earlier one has completed on the device or
\* has been elided as overwritten; so no two overlapping IOs are in
\* flight together.
C1_OverlapSerialized ==
    /\ \A a, b \in DOMAIN app.io :
          (a < b /\ Lbs(app.io[a]) \cap Lbs(app.io[b]) # {}
                 /\ app.io[b].isSubmitted)
              => \/ app.io[a].isSubmitted /\ a \notin app.aioPending
                 \/ app.io[a].isOverwritten /\ ~app.io[a].isSubmitted
    /\ \A a, b \in app.aioPending :
          a # b => Lbs(app.io[a]) \cap Lbs(app.io[b]) = {}

\* an earlier IO is in flight and a later overlapping one is held back
C1_Witness ==
    \E a, b \in DOMAIN app.io :
        /\ a < b
        /\ Lbs(app.io[a]) \cap Lbs(app.io[b]) # {}
        /\ a \in app.aioPending
        /\ app.io[b].nOverlapped > 0
        /\ ~app.io[b].isSubmitted
        /\ ~app.io[b].isOverwritten

\* a record of the log that writes: a normal record, or a discard under -z
Writes(r) == r.kind = "normal" \/ (r.kind = "discard" /\ cfg.discard # "ignore")

\* C2: when redo ends normally, every block of a record that lies within
\* the device and that no later record touches holds that record's
\* payload (zeros for a zero-discard), as if the records had been applied
\* one by one in log order.
C2_LastRecordWins ==
    (pc = "done" /\ passNo = 1) =>
        \A n \in 1..Len(log) :
            (log[n].kind = "normal" \/ (log[n].kind = "discard" /\ cfg.discard = "zero"))
                /\ log[n].offset + log[n].io_size <= DevSizeLb
            => \A k \in 0..(log[n].io_size - 1) :
                  (\A j \in (n + 1)..Len(log) :
                       ~(/\ Writes(log[j])
                         /\ log[j].offset <= log[n].offset + k
                         /\ log[n].offset + k < log[j].offset + log[j].io_size))
                  => dev[log[n].offset + k] =
                        IF log[n].kind = "normal" THEN <<n, k>> ELSE ZeroCell

\* a record no larger than one device physical block: one IO
OneIo(r) == r.io_size * LOGICAL_BLOCK_SIZE <= cfg.blockSize_

SameRange(r, t) == r.offset = t.offset /\ r.io_size = t.io_size

TwoIdentical ==
    /\ pc = "done" /\ passNo = 1
    /\ Len(log) = 2
    /\ log[1].kind = "normal" /\ log[2].kind = "normal"
    /\ SameRange(log[1], log[2])
    /\ log[1].offset + log[1].io_size <= DevSizeLb

\* C3 as stated: an IO fully covered by a later IO is never written to the
\* device, and two successive records writing the same range end with
\* n_overwritten = 1 and n_written = 1.
C3_AsStated ==
    /\ \A id \in DOMAIN app.io :
          app.io[id].isOverwritten => ~app.io[id].isSubmitted
    /\ TwoIdentical => app.nOverwritten_ = 1 /\ app.nWritten_ = 1

\* C3 amended: an IO that is fully covered by a later IO before it was
\* submitted is never written: it gives up its buffers, is never
\* submitted and is counted in n_overwritten, not in n_written (an IO
\* already submitted is written and counted in n_written); two
\* successive records of at most one device block each writing the same
\* range end with n_overwritten = 1, n_written = 1 and the later payload
\* on the device.
C3_OverwriteElision ==
    /\ app.elided \cap app.subEver = {}
    /\ \A id \in DOMAIN app.io :
          (app.io[id].isOverwritten /\ ~app.io[id].isSubmitted)
              => id \in app.elided /\ app.io[id].blocks = <<>>
    /\ pc = "done" =>
          /\ app.nOverwritten_ = Cardinality(app.elided)
          /\ app.nWritten_ = Cardinality(app.subEver)
    /\ (TwoIdentical /\ OneIo(log[1])) =>
          /\ app.nOverwritten_ = 1 /\ app.nWritten_ = 1
          /\ \A k \in 0..(log[2].io_size - 1) : dev[log[2].offset + k] = <<2, k>>

C3_Witness ==
    /\ TwoIdentical /\ OneIo(log[1])
    /\ app.elided = {0}
    /\ app.nOverwritten_ = 1

\* C4, the step that creates an IO: one whose range passes the end of the
\* device is counted in n_clipped and left out of the queue; any other is
\* queued up to its full end.
ClipStep ==
    (pc = "loop" /\ loc'.i = loc.i + 1) =>
        LET size == Min(cfg.blockSize_, loc.remaining)
        IN IF loc.off + size > cfg.devSize
           THEN /\ app'.nClipped_ = app.nClipped_ + 1
                /\ loc'.tmpIoQ = loc.tmpIoQ
                /\ loc'.nBlocks = loc.nBlocks
           ELSE /\ app'.nClipped_ = app.nClipped_
                /\ loc'.tmpIoQ # <<>>
                /\ LET p == loc'.tmpIoQ[Len(loc'.tmpIoQ)]
                   IN p.offset + p.size = loc.off + size

\* C4: no IO that is queued, submitted or written reaches past the end of
\* the device; an IO that would is dropped whole and counted in n_clipped.
C4_ClipSafety ==
    /\ [](\A p \in AllIos : p.offset + p.size <= cfg.devSize)
    /\ [][ClipStep]_vars

\* an IO was clipped while another one of the same run is in flight
C4_Witness == app.nClipped_ > 0 /\ app.aioPending # {}

Straddles(r) == r.offset < DevSizeLb /\ DevSizeLb < r.offset + r.io_size

OneStraddling ==
    /\ pc = "done" /\ passNo = 1
    /\ Len(log) = 1
    /\ log[1].kind = "normal"
    /\ Straddles(log[1])

C6_Idempotent ==
    pc = "done" => dev = refDev /\ (passNo = 2 => dev = dev1)

\* the second run has ended after writing overlapping IOs
C6_Witness ==
    /\ pc = "done" /\ passNo = 2
    /\ app.nWritten_ >= 2
    /\ dev # InitDev
    /\ \E i, j \in 1..Len(log) :
          i < j /\ Writes(log[i]) /\ Writes(log[j])
                /\ log[i].offset < log[j].offset + log[j].io_size
                /\ log[j].offset < log[i].offset + log[i].io_size

\* physical blocks of the IOs on a queue of the applier
RECURSIVE PbOf(_)
PbOf(q) == IF q = <<>> THEN 0 ELSE bytesToPb(app.io[Head(q)].size) + PbOf(Tail(q))

\* the IO waitForAnIoCompletion has popped from ioQ_ and not yet accounted
Awaited == IF pc = "wait" THEN <<loc.iop>> ELSE <<>>

C12_Termination ==
    /\ (pc = "drain" /\ Head(ret) = "final") ~> (pc = "done")
    /\ [](pc = "done" =>
            /\ app.ioQ_ = <<>> /\ app.readyIoQ_ = <<>> /\ app.submitIoQ_ = <<>>
            /\ app.set_ = {} /\ app.aioPending = {} /\ app.aioDone = {})
    /\ [](pc = "wait" =>
            \/ app.io[loc.iop].isSubmitted
            \/ app.io[loc.iop].isOverwritten)

\* the final drain waits for a write in flight that the wait itself had to
\* flush to the device, with more IOs behind it
C12_Witness ==
    /\ pc = "wait"
    /\ ret = <<"drain", "final">>
    /\ loc.iop \in app.aioPending
    /\ app.ioQ_ # <<>>
    /\ app.nOverwritten_ > 0

\* a record for which redoNormalIo creates at least one IO within the device
Redone(r) ==
    /\ r.kind = "normal" \/ (r.kind = "discard" /\ cfg.discard = "zero")
    /\ r.offset * LOGICAL_BLOCK_SIZE
          + Min(cfg.blockSize_, r.io_size * LOGICAL_BLOCK_SIZE) <= cfg.devSize

\* the log is two 1-LB write records at LB 0 and LB 1
TwoConsecutive ==
    /\ Len(log) = 2
    /\ log[1] = [kind |-> "normal", offset |-> 0, io_size |-> 1]
    /\ log[2] = [kind |-> "normal", offset |-> 1, io_size |-> 1]

\* C13 as stated: records at consecutive offsets end as one write.
C13_AsStated == pc = "done" /\ TwoConsecutive => app.nWritten_ = 1

\* C13, amended: coalescing is within one record.  In the IoQueue of
\* redoNormalIo no two neighbours are left that are adjacent on the device
\* and in memory, every IO there lies within the record being redone and
\* its buffers are contiguous; an IO never carries payload of two records;
\* and a finished run has waited for at least one IO per record redone.
C13_CoalesceWithinRecord ==
    pc \notin {"idle", "error"} =>
        /\ \A k \in 1..(Len(loc.tmpIoQ) - 1) :
              ~ /\ loc.tmpIoQ[k].offset + loc.tmpIoQ[k].size
                      = loc.tmpIoQ[k + 1].offset
                /\ loc.tmpIoQ[k].blocks[1].addr + loc.tmpIoQ[k].size
                      = loc.tmpIoQ[k + 1].blocks[1].addr
        /\ \A k \in 1..Len(loc.tmpIoQ) :
              LET p == loc.tmpIoQ[k]
              IN /\ loc.rec.offset * LOGICAL_BLOCK_SIZE <= p.offset
                 /\ p.offset + p.size
                       <= (loc.rec.offset + loc.rec.io_size) * LOGICAL_BLOCK_SIZE
                 /\ \A j \in 1..Len(p.blocks) :
                       p.blocks[j].addr
                          = p.blocks[1].addr + (j - 1) * cfg.blockSize_
        /\ \A p \in AllIos :
              p.blocks # <<>> =>
                  \A c, d \in Range(WriteCells(p)) :
                      c[1] > 0 /\ d[1] > 0 => c[1] = d[1]
        /\ pc = "done" =>
              app.nWritten_ + app.nOverwritten_
                 >= Cardinality({i \in 1..Len(log) : Redone(log[i])})

\* the second of two records is in flight as one write of two device
\* blocks, coalesced from two IOs
C13_Witness ==
    /\ pc = "wait"
    /\ Len(log) = 2 /\ Redone(log[1]) /\ Redone(log[2])
    /\ \E p \in AllIos :
          /\ p.size = 2 * cfg.blockSize_ /\ Len(p.blocks) = 2
          /\ p.isSubmitted
          /\ WriteCells(p)[1][1] = 2

\* C14: the step at which a record's checksum does not match creates and
\* submits nothing and ends the run in error; from then on the run stays
\* in error, no IO is created and none is submitted (writes submitted
\* before may still complete), so the run never reports success.
C14_ChecksumAborts ==
    /\ [](err = "invalid checksum" => pc = "error")
    /\ [][err' = "invalid checksum" =>
            /\ pc' = "error"
            /\ app'.seq = app.seq
            /\ app'.nIos = app.nIos
            /\ app'.subEver = app.subEver
            /\ app'.ioQ_ = app.ioQ_
            /\ app'.nWritten_ = app.nWritten_]_vars

\* the second record fails its checksum while an IO of the first one is
\* queued and not submitted
C14_Witness ==
    /\ err = "invalid checksum"
    /\ nRead = 1
    /\ loc.rec.kind = "normal"
    /\ app.submitIoQ_ # <<>>
    /\ \E id \in DOMAIN app.io : ~app.io[id].isSubmitted

\* C15 as stated: a short read on a pack header ends the redo in error.
C15_ShortReadIsError == loc.hdr = "short read" => pc = "error"

\* C16: with a log whose physical block size is smaller than the device's
\* or no multiple of it, the run fails at the header: no IO is created,
\* submitted or counted, nothing is discarded and the device is as it was.
C16_RejectIncompatible ==
    (cfg # <<>> /\ (cfg.pbs < cfg.blockSize_ \/ cfg.pbs % cfg.blockSize_ # 0)) =>
        /\ pc \in {"header", "error"}
        /\ pc = "error" => err = "canApply"
        /\ app = NewApplyer
        /\ nRead = 0 /\ passNo = 1
        /\ dev = InitDev /\ refDev = InitDev

\* a log of a larger block size that is no multiple of the device's has
\* been rejected
C16_Witness ==
    /\ pc = "error" /\ err = "canApply"
    /\ cfg.blockSize_ < cfg.pbs
    /\ cfg.pbs % cfg.blockSize_ # 0

\* the step is the BLKDISCARD of redoDiscard, done or failed
DiscardIssued ==
    /\ cfg # <<>> /\ cfg.discard = "issue"
    /\ passNo' = passNo
    /\ \/ app'.nDiscard_ # app.nDiscard_
       \/ err' = "discard command failed" /\ err # err'

\* every IO made so far has been waited for: written to the device or
\* elided as overwritten, none queued, in the overlap data or in flight
AllIosSettled ==
    /\ app.ioQ_ = <<>> /\ app.readyIoQ_ = <<>>
    /\ app.set_ = {}
    /\ app.aioPending = {} /\ app.aioDone = {}
    /\ \A id \in DOMAIN app.io :
          app.io[id].isOverwritten /\ ~app.io[id].isSubmitted
    /\ app.subEver \cap app.elided = {}
    /\ app.nWritten_ = Cardinality(app.subEver)
    /\ app.nWritten_ + app.nOverwritten_ = app.nIos
    /\ dev = refDev

\* C28: with -d, when the discard of a DISCARD record is issued, ioQ_,
\* readyIoQ_ and the overlap data are empty and every IO of the earlier
\* records has been written to the device or elided as overwritten (the
\* device reads as if they had been written in order); the discard step
\* submits nothing and creates no IO, and no record is read between the
\* wait and the discard.
C28_DiscardOrdered ==
    /\ []((pc = "drain" /\ ret = <<"discard">>
             /\ app.ioQ_ = <<>> /\ app.readyIoQ_ = <<>>) => AllIosSettled)
    /\ [][DiscardIssued =>
            /\ pc = "drain" /\ ret = <<"discard">>
            /\ loc.rec = log[nRead]
            /\ AllIosSettled
            /\ app'.subEver = app.subEver
            /\ app'.nIos = app.nIos
            /\ app'.aioPending = {}
            /\ nRead' = nRead]_vars

\* a discard has been issued after the two IOs of a write record were
\* written, and it took one of the two blocks they had written
C28_Witness ==
    /\ pc = "read" /\ passNo = 1
    /\ cfg.discard = "issue"
    /\ nRead = 2 /\ log[1].kind = "normal" /\ log[2].kind = "discard"
    /\ app.nDiscard_ > 0
    /\ app.nWritten_ = 2
    /\ dev[0] = <<1, 0>>
    /\ dev[1] = DiscardedCell

\* the step reads the record r of the log and redoes it
ReadsRecord(r) == nRead' = nRead + 1 /\ passNo' = passNo /\ log'[nRead'] = r

\* the step creates no IO, submits none, issues no discard and leaves
\* the queues and the device as they are
NoDeviceIo ==
    /\ app'.nIos = app.nIos /\ app'.seq = app.seq
    /\ app'.subEver = app.subEver /\ app'.aioPending = app.aioPending
    /\ app'.ioQ_ = app.ioQ_ /\ app'.readyIoQ_ = app.readyIoQ_
    /\ app'.submitIoQ_ = app.submitIoQ_
    /\ dev' = dev
    /\ pc' = "read"

\* C29 as stated: a DISCARD record causes no write and no discard command
\* without -d and -z; with -z, after the redo every block of its range
\* that lies within the device and that no later record writes is zero;
\* a PADDING record causes no device IO in any mode.
C29_DiscardDispatch ==
    /\ [][\A r \in Records :
            (ReadsRecord(r) /\ r.kind = "discard" /\ cfg.discard = "ignore")
                => NoDeviceIo]_vars
    /\ [][\A r \in Records :
            (ReadsRecord(r) /\ r.kind = "padding") => NoDeviceIo]_vars
    /\ []((pc = "done" /\ passNo = 1 /\ cfg.discard = "zero") =>
            \A n \in 1..Len(log) :
                log[n].kind = "discard" =>
                    \A x \in log[n].offset..(log[n].offset + log[n].io_size - 1) :
                        (/\ x < DevSizeLb
                         /\ \A j \in (n + 1)..Len(log) :
                               ~(/\ Writes(log[j])
                                 /\ log[j].offset <= x
                                 /\ x < log[j].offset + log[j].io_size))
                        => dev[x] = ZeroCell)

\* the IOs of the overlap data inserted before p that overlap p
OverlappedBefore(p) ==
    {q \in app.set_ : q < p /\ isOverlapped(app.io[q], app.io[p])}

\* the IOs of the overlap data that overlap iop, by a scan of the whole set
OverlappedAll(iop) ==
    {q \in app.set_ : isOverlapped(app.io[q], iop)}

\* C34: for every IO p of the overlap data, nOverlapped is the number of
\* IOs still in the data that were inserted before p and overlap p; the
\* windowed scan [offset - maxSize_, offset + size) of ins (for an IO about
\* to be inserted) and of del (for an IO of the data) finds every
\* overlapping entry; nOverlapped is never below 0; the IO that
\* waitForAnIoCompletion has popped from ioQ_ and will hand to del has
\* nOverlapped 0.
C34_OverlapCount ==
    /\ \A p \in app.set_ :
          /\ app.io[p].nOverlapped = Cardinality(OverlappedBefore(p))
          /\ app.io[p].size <= app.maxSize_
          /\ {q \in ScanWindow(app, app.io[p]) : isOverlapped(app.io[q], app.io[p])}
                = OverlappedAll(app.io[p])
    /\ pc = "prepare" =>
          \A k \in 1..Len(loc.tmpIoQ) :
              {q \in ScanWindow(app, loc.tmpIoQ[k]) :
                    isOverlapped(app.io[q], loc.tmpIoQ[k])}
                = OverlappedAll(loc.tmpIoQ[k])
    /\ \A p \in DOMAIN app.io : app.io[p].nOverlapped >= 0
    /\ pc = "wait" =>
          /\ loc.iop \in app.set_
          /\ app.io[loc.iop].nOverlapped = 0
    /\ err \notin {"del:nOverlapped", "wait:nOverlapped", "submitIos:nOverlapped"}

\* the IO awaited is about to leave the overlap data while a later IO
\* that starts before it and overlaps it is held back with count 1
C34_Witness ==
    /\ pc = "wait"
    /\ \E p \in app.set_ :
          /\ p > loc.iop
          /\ app.io[p].offset < app.io[loc.iop].offset
          /\ isOverlapped(app.io[loc.iop], app.io[p])
          /\ app.io[p].nOverlapped = 1
          /\ ~app.io[p].isSubmitted

\* the IO was marked overwritten before it was submitted
ElidedIo(m, id) == m.io[id].isOverwritten /\ ~m.io[id].isSubmitted

\* the step is the second half of waitForAnIoCompletion for the IO popped
AwaitedStep == pc = "wait" /\ loc.iop \in app.set_ /\ loc.iop \notin app'.set_

\* C35: an IO marked overwritten while not submitted has given up its
\* payload and is never submitted afterwards, neither by scheduleIos nor by
\* submitIos; when it is popped from ioQ_ it is counted in nOverwritten_
\* and not waited for.  An IO that was already submitted when it was
\* marked overwritten is waited for when it is popped, until the device
\* has completed it, and is counted in nWritten_.  Every IO popped from
\* ioQ_ passes through that wait.
C35_OverwrittenIo ==
    /\ [](\A id \in DOMAIN app.io :
            ElidedIo(app, id) =>
                /\ app.io[id].blocks = <<>>
                /\ id \in app.elided
                /\ id \notin app.subEver
                /\ id \notin app.aioPending \cup app.aioDone)
    /\ [][\A id \in DOMAIN app.io :
            (ElidedIo(app, id) /\ id \in DOMAIN app'.io) => ElidedIo(app', id)]_vars
    /\ [][app'.elided \cap app'.subEver = {}]_vars
    /\ [][(app.ioQ_ # <<>> /\ app'.ioQ_ = Tail(app.ioQ_))
             => loc'.iop = Head(app.ioQ_) /\ pc' \in {"wait", "error"}]_vars
    /\ [][AwaitedStep =>
            IF app.io[loc.iop].isSubmitted
            THEN /\ loc.iop \in app.aioDone
                 /\ app'.nWritten_ = app.nWritten_ + 1
                 /\ app'.nOverwritten_ = app.nOverwritten_
            ELSE /\ ElidedIo(app, loc.iop)
                 /\ app'.nOverwritten_ = app.nOverwritten_ + 1
                 /\ app'.nWritten_ = app.nWritten_
                 /\ app'.subEver = app.subEver]_vars

\* the IO awaited was marked overwritten after its submission and is
\* still in flight
SubmittedThenOverwritten ==
    /\ pc = "wait"
    /\ app.io[loc.iop].isSubmitted /\ app.io[loc.iop].isOverwritten
    /\ loc.iop \in app.aioPending

\* the IO popped from ioQ_ was marked overwritten while it stood in
\* submitIoQ_, where it still is, unsubmitted
C35_Witness ==
    /\ pc = "wait"
    /\ ElidedIo(app, loc.iop)
    /\ loc.iop \in Range(app.submitIoQ_)

\* C37 as stated: for every pair of log and device block sizes canApply
\* accepts, the IOs redoNormalIo makes of one record follow one another
\* without gap or overlap from the record's first byte, and when the loop
\* has ended they reach the record's last byte: remaining is 0.
C37_SplitCoverage ==
    /\ [][(pc = "loop" /\ loc'.i = loc.i + 1) =>
            /\ loc.off = loc.rec.offset * LOGICAL_BLOCK_SIZE
                            + (loc.rec.io_size * LOGICAL_BLOCK_SIZE - loc.remaining)
            /\ loc'.off > loc.off
            /\ loc'.off - loc.off = loc.remaining - loc'.remaining]_vars
    /\ []((pc = "loop" /\ loc.i = ioSizePb(loc.rec)) =>
            /\ loc.remaining = 0
            /\ loc.off = (loc.rec.offset + loc.rec.io_size) * LOGICAL_BLOCK_SIZE)

\* the IOs that have been popped from ioQ_ and waited for: the submitted
\* ones, and the ones marked overwritten before their submission
Counted == (app.subEver \cup app.elided) \ (Range(app.ioQ_) \cup Range(Awaited))

\* C38: every IO placed on ioQ_ is counted once when it has been popped
\* and waited for, in nWritten_ if it was submitted and in nOverwritten_
\* otherwise, and no IO is popped twice; when the redo ends normally
\* nWritten_ + nOverwritten_ is the number of IOs placed on ioQ_, every
\* IO submitted has been waited for after the device completed it, and
\* nothing is left in flight.
C38_Accounting ==
    /\ \A j, k \in 1..Len(app.ioQ_) : j # k => app.ioQ_[j] # app.ioQ_[k]
    /\ pc = "wait" => loc.iop \notin Range(app.ioQ_)
    /\ pc # "error" =>
          /\ app.nWritten_ + app.nOverwritten_ + Len(app.ioQ_) + Len(Awaited)
                = app.nIos
          /\ app.nWritten_ = Cardinality(Counted \cap app.subEver)
          /\ app.nOverwritten_ = Cardinality(Counted \ app.subEver)
          /\ Counted \cap (app.aioPending \cup app.aioDone) = {}
    /\ pc = "done" =>
          /\ app.nWritten_ + app.nOverwritten_ = app.nIos
          /\ app.nWritten_ = Cardinality(app.subEver)
          /\ app.ioQ_ = <<>>
          /\ app.aioPending = {} /\ app.aioDone = {}
    /\ err \notin {"wait:isCompleted", "wait:isOverwritten"}

\* a redo has ended normally with three IOs placed on ioQ_, two written
\* and one elided
C38_Witness ==
    /\ pc = "done" /\ passNo = 1
    /\ app.nIos = 3
    /\ app.nWritten_ = 2
    /\ app.nOverwritten_ = 1

\* the size of the record r in physical blocks of the log
SizeInPb(r) == (r.io_size * LOGICAL_BLOCK_SIZE + cfg.pbs - 1) \div cfg.pbs

\* the step reads a padding record
ReadsPadding == \E r \in Records : ReadsRecord(r) /\ r.kind = "padding"

\* the step is the BLKDISCARD of redoDiscard and it succeeds
DiscardDone == DiscardIssued /\ err' = err /\ pc' = "read"

\* C40 as stated: each PADDING record increases nPadding_ by exactly one
\* and each DISCARD record redone by a discard command increases
\* nDiscard_ by exactly one, whatever the size of the record.
C40_AsStated ==
    /\ [][ReadsPadding => app'.nPadding_ = app.nPadding_ + 1]_vars
    /\ [][DiscardDone => app'.nDiscard_ = app.nDiscard_ + 1]_vars

\* C40, amended: each PADDING record increases nPadding_ by its size in
\* physical blocks of the log (by nothing when its io_size is 0), and
\* each DISCARD record redone by a discard command increases nDiscard_ by
\* its size in physical blocks of the log once the command has succeeded;
\* no other step changes nPadding_.
C40_Statistics ==
    /\ [][\A r \in Records :
            (ReadsRecord(r) /\ r.kind = "padding")
                => app'.nPadding_ = app.nPadding_ + SizeInPb(r)]_vars
    /\ [][(passNo' = passNo /\ ~ReadsPadding /\ pc # "idle")
            => app'.nPadding_ = app.nPadding_]_vars
    /\ [][DiscardDone =>
            app'.nDiscard_ = app.nDiscard_ + SizeInPb(loc.rec)]_vars

\* a log of a padding record of two blocks and a discard record of two
\* blocks has been redone with -d: both counters are 2
C40_Witness ==
    /\ pc = "read" /\ passNo = 1 /\ nRead = 2
    /\ cfg.pbs = LOGICAL_BLOCK_SIZE /\ cfg.discard = "issue"
    /\ log[1].kind = "padding" /\ log[1].io_size = 2
    /\ log[2].kind = "discard" /\ log[2].io_size = 2
    /\ app.nPadding_ = 2
    /\ app.nDiscard_ = 2

(***************************************************************************)
(* Diff records and IO data                                                *)
(***************************************************************************)
MaxAdds == 3        \* add calls on one diff map

\* struct walb_diff_record of an uncompressed record; flags is the one
\* of normal / allzero / discard that isNormal, isAllZero, isDiscard tell
DiffRecord(addr, blks, flags) ==
    [io_address |-> addr, io_blocks |-> blks, flags |-> flags,
     data_size |-> IF flags = "normal" THEN blks * LOGICAL_BLOCK_SIZE ELSE 0]

\* a slip of Record::endIoAddress: the address of the last block
endIoAddress_lastBlock(rec) == rec.io_address + rec.io_blocks - 1

\* Record::endIoAddress
endIoAddress(rec) == rec.io_address + rec.io_blocks

\* Record::isNormal
isNormal(rec) == rec.flags = "normal"

\* IoWrap::set0 and the data of an IoData, one cell per logical block
IoData(rec, data) ==
    [ioBlocks |-> IF isNormal(rec) THEN rec.io_blocks ELSE 0, data |-> data]

\* RecordRaw::splitAll, its loop
RECURSIVE splitAllLoop(_, _, _, _)
splitAllLoop(rec, ioBlocks0, addr, remaining) ==
    IF ~(0 < remaining) THEN <<>>
    ELSE LET blks == Min(ioBlocks0, remaining)
             r == [rec EXCEPT
                     !.io_address = addr,
                     !.io_blocks = blks,
                     !.data_size = IF isNormal(rec)
                                   THEN blks * LOGICAL_BLOCK_SIZE ELSE @]
         IN <<r>> \o splitAllLoop(rec, ioBlocks0, addr + blks, remaining - blks)

\* a slip of RecordRaw::splitAll: the last, shorter piece is left out
splitAll_floor(rec, ioBlocks0) ==
    splitAllLoop(rec, ioBlocks0, rec.io_address,
                 (rec.io_blocks \div ioBlocks0) * ioBlocks0)

\* a slip of RecordRaw::splitAll: addr is not advanced
splitAll_sameAddr(rec, ioBlocks0) ==
    LET v == splitAllLoop(rec, ioBlocks0, rec.io_address, rec.io_blocks)
    IN [k \in 1..Len(v) |-> [v[k] EXCEPT !.io_address = rec.io_address]]

\* RecordRaw::splitAll (ioBlocks0 > 0, the record uncompressed)
splitAll(rec, ioBlocks0) ==
    splitAllLoop(rec, ioBlocks0, rec.io_address, rec.io_blocks)

\* splitIoDataAll, its loop; off in bytes
RECURSIVE splitIoDataLoop(_, _, _, _)
splitIoDataLoop(io0, ioBlocks0, remaining, off) ==
    IF ~(0 < remaining) THEN <<>>
    ELSE LET blks == Min(remaining, ioBlocks0)
             size == blks * LOGICAL_BLOCK_SIZE
             first == off \div LOGICAL_BLOCK_SIZE
             piece == [ioBlocks |-> blks,
                       data |-> SubSeq(io0.data, first + 1, first + blks)]
         IN <<piece>> \o splitIoDataLoop(io0, ioBlocks0, remaining - blks, off + size)

\* a slip of splitIoDataAll: the last, shorter piece is left out
splitIoDataAll_floor(io0, ioBlocks0) ==
    splitIoDataLoop(io0, ioBlocks0, (io0.ioBlocks \div ioBlocks0) * ioBlocks0, 0)

\* a slip of splitIoDataAll: off is not advanced
splitIoDataAll_sameOff(io0, ioBlocks0) ==
    LET v == splitIoDataLoop(io0, ioBlocks0, io0.ioBlocks, 0)
    IN [k \in 1..Len(v) |->
          [v[k] EXCEPT !.data = SubSeq(io0.data, 1, v[k].ioBlocks)]]

\* splitIoDataAll (ioBlocks0 > 0, the IO uncompressed)
splitIoDataAll(io0, ioBlocks0) ==
    splitIoDataLoop(io0, ioBlocks0, io0.ioBlocks, 0)

(***************************************************************************)
(* The in-memory diff map: a sequence of entries [rec, io] in address      *)
(* order.                                                                  *)
(***************************************************************************)
\* a slip of the slicing: the payload is always taken from its start
Slice_fromStart(e, from, blks) ==
    [rec |-> [e.rec EXCEPT
                !.io_address = @ + from,
                !.io_blocks = blks,
                !.data_size = IF isNormal(e.rec)
                              THEN blks * LOGICAL_BLOCK_SIZE ELSE @],
     io |-> IF isNormal(e.rec)
            THEN [ioBlocks |-> blks, data |-> SubSeq(e.io.data, 1, blks)]
            ELSE e.io]

\* blocks [from, from + blks) of the entry e, its payload sliced with it
Slice(e, from, blks) ==
    [rec |-> [e.rec EXCEPT
                !.io_address = @ + from,
                !.io_blocks = blks,
                !.data_size = IF isNormal(e.rec)
                              THEN blks * LOGICAL_BLOCK_SIZE ELSE @],
     io |-> IF isNormal(e.rec)
            THEN [ioBlocks |-> blks,
                  data |-> SubSeq(e.io.data, from + 1, from + blks)]
            ELSE e.io]

\* what the add of newRec leaves of the entry e
Minus(e, newRec) ==
    LET a0 == e.rec.io_address
        a1 == endIoAddress(e.rec)
        b0 == newRec.io_address
        b1 == endIoAddress(newRec)
    IN IF a1 <= b0 \/ b1 <= a0 THEN <<e>>
       ELSE IF b0 <= a0 /\ a1 <= b1 THEN <<>>
       ELSE IF a0 < b0 /\ a1 <= b1 THEN <<Slice(e, 0, b0 - a0)>>
       ELSE IF b0 <= a0 /\ b1 < a1 THEN <<Slice(e, b1 - a0, a1 - b1)>>
       ELSE <<Slice(e, 0, b0 - a0), Slice(e, b1 - a0, a1 - b1)>>

RECURSIVE Prune(_, _)
Prune(mem, newRec) ==
    IF mem = <<>> THEN <<>>
    ELSE Minus(Head(mem), newRec) \o Prune(Tail(mem), newRec)

\* the map is keyed by io_address
InsertEntry(mem, e) ==
    LET before == {k \in 1..Len(mem) : mem[k].rec.io_address <= e.rec.io_address}
        n == Cardinality(before)
    IN SubSeq(mem, 1, n) \o <<e>> \o SubSeq(mem, n + 1, Len(mem))

RECURSIVE InsertEntries(_, _)
InsertEntries(mem, es) ==
    IF es = <<>> THEN mem
    ELSE InsertEntries(InsertEntry(mem, Head(es)), Tail(es))

\* the entries a new record is inserted as
Pieces(rec, io, maxIo) ==
    IF maxIo > 0 /\ rec.io_blocks > maxIo
    THEN LET recV == splitAll(rec, maxIo)
             ioV == IF isNormal(rec) THEN splitIoDataAll(io, maxIo) ELSE <<>>
         IN [k \in 1..Len(recV) |->
               [rec |-> recV[k],
                io |-> IF isNormal(rec) /\ k <= Len(ioV) THEN ioV[k] ELSE io]]
    ELSE <<[rec |-> rec, io |-> io]>>

\* DiffMemory::add
DiffMemoryAdd(mem, rec, io, maxIo) ==
    InsertEntries(Prune(mem, rec), Pieces(rec, io, maxIo))

\* what the map holds for the logical block x: a payload block of a normal
\* entry, the flag of an allzero or discard entry, "none" where no entry is
ContentAddrs == 0..7

CellAt(e, x) ==
    IF ~isNormal(e.rec) THEN <<e.rec.flags>>
    ELSE IF x - e.rec.io_address + 1 \in DOMAIN e.io.data
         THEN e.io.data[x - e.rec.io_address + 1]
         ELSE <<"missing">>

Content(mem) ==
    [x \in ContentAddrs |->
        LET hit == {k \in 1..Len(mem) :
                       /\ mem[k].rec.io_address <= x
                       /\ x < mem[k].rec.io_address + mem[k].rec.io_blocks}
        IN IF hit = {} THEN <<"none">>
           ELSE CellAt(mem[CHOOSE k \in hit : \A j \in hit : k <= j], x)]

(***************************************************************************)
(* A diff map fed by add calls, as Converter::convert feeds its MemoryData *)
(***************************************************************************)
DiffAddrSet == 0..1
DiffBlockSet == 1..3
DiffFlags == {"normal", "allzero", "discard"}
MaxIoBlocksSet == {0, 1, 2}

InitDiffMap ==
    /\ walbDiff = <<>>
    /\ maxIoBlocks \in MaxIoBlocksSet
    /\ nAdded = 0
    /\ lastAdd = <<>>
    /\ prevContent = Content(<<>>)
    /\ RedoIdle
    /\ MergeIdle
    /\ PackIdle
    /\ CsumIdle
    /\ ConvIdle
    /\ RecIdle
    /\ IoqIdle

\* the payload of the record an add call brings: block k of add number n
Payload(rec, n) ==
    IF isNormal(rec) THEN [k \in 1..rec.io_blocks |-> <<n, k - 1>>] ELSE <<>>

\* Converter::convertWlog, walbDiff.add(diffRec, std::move(diffIo))
DiffAdd ==
    \E addr \in DiffAddrSet, blks \in DiffBlockSet, flags \in DiffFlags :
        LET rec == DiffRecord(addr, blks, flags)
            io == IoData(rec, Payload(rec, nAdded + 1))
        IN /\ nAdded < MaxAdds
           /\ walbDiff' = DiffMemoryAdd(walbDiff, rec, io, maxIoBlocks)
           /\ nAdded' = nAdded + 1
           /\ lastAdd' = [rec |-> rec, io |-> io]
           /\ prevContent' = Content(walbDiff)
           /\ UNCHANGED <<maxIoBlocks, redoVars, mergeVars, packVars, csumVars, convVars, recVars, ioqVars>>

NextDiffMap == DiffAdd

SpecDiffMap == InitDiffMap /\ [][NextDiffMap]_vars

\* C7: after every add the entries of the diff map are pairwise
\* non-overlapping and held in ascending address order (each entry ends at
\* or before the start of the next), whatever maxIoBlocks is.
C7_NonOverlapSorted ==
    /\ \A i, j \in 1..Len(walbDiff) :
          i < j => /\ walbDiff[i].rec.io_address < walbDiff[j].rec.io_address
                   /\ walbDiff[i].rec.io_address + walbDiff[i].rec.io_blocks
                         <= walbDiff[j].rec.io_address
    /\ \A i \in 1..Len(walbDiff) : walbDiff[i].rec.io_blocks > 0

\* an add has cut a normal entry in two around a discard
C7_Witness ==
    /\ nAdded = 2
    /\ maxIoBlocks = 0
    /\ Len(walbDiff) = 3
    /\ walbDiff[1].rec.flags = "normal" /\ walbDiff[3].rec.flags = "normal"
    /\ walbDiff[2].rec.flags = "discard"
    /\ walbDiff[3].io.data = <<<<1, 2>>>>

\* C8: right after add(R) every block of R's range reads what R carries
\* for it (its payload block, or its allzero / discard flag), whatever
\* covered it before, and every block outside reads as before the add.
C8_NewcomerWins ==
    nAdded > 0 =>
        \A x \in ContentAddrs :
            Content(walbDiff)[x] =
                IF /\ lastAdd.rec.io_address <= x
                   /\ x < lastAdd.rec.io_address + lastAdd.rec.io_blocks
                THEN IF lastAdd.rec.flags = "normal"
                     THEN <<nAdded, x - lastAdd.rec.io_address>>
                     ELSE <<lastAdd.rec.flags>>
                ELSE prevContent[x]

\* a discard has been added over part of a normal entry, and a split
\* normal record over entries of every kind
C8_Witness ==
    /\ nAdded = 3
    /\ maxIoBlocks = 2
    /\ lastAdd.rec.flags = "normal" /\ lastAdd.rec.io_blocks = 3
    /\ \E x, y, z \in ContentAddrs :
          /\ prevContent[x] = <<"discard">> /\ prevContent[y] = <<1, 0>>
          /\ prevContent[z] = <<1, 2>>
          /\ Content(walbDiff)[x] # prevContent[x]
          /\ Content(walbDiff)[y] = prevContent[y]
          /\ Content(walbDiff)[z] # prevContent[z]

\* the entry with blocks [from, to) of the older entry e: e's flags, and
\* of a normal e the payload blocks of that range
Remainder(e, from, to) ==
    [rec |-> [io_address |-> from, io_blocks |-> to - from,
              flags |-> e.rec.flags,
              data_size |-> IF e.rec.flags = "normal" THEN (to - from) * 512 ELSE 0],
     io |-> IF e.rec.flags = "normal"
            THEN [ioBlocks |-> to - from,
                  data |-> [k \in 1..(to - from) |->
                              e.io.data[from - e.rec.io_address + k]]]
            ELSE e.io]

StrictlyInside(n, e) ==
    /\ e.io_address < n.io_address
    /\ n.io_address + n.io_blocks < e.io_address + e.io_blocks

\* C26: an add of a record N that lies strictly inside an entry E of the
\* map replaces E by exactly three entries: E's blocks before N with E's
\* flags and their payload, N, E's blocks after N with E's flags and their
\* payload; the other entries stay.
C26_StraddleSplit ==
    [][\A i \in 1..Len(walbDiff) :
          (nAdded' = nAdded + 1 /\ StrictlyInside(lastAdd'.rec, walbDiff[i].rec)) =>
             LET E == walbDiff[i]
                 N == lastAdd'
             IN  walbDiff' =
                    SubSeq(walbDiff, 1, i - 1)
                    \o <<Remainder(E, E.rec.io_address, N.rec.io_address),
                         [rec |-> N.rec, io |-> N.io],
                         Remainder(E, N.rec.io_address + N.rec.io_blocks,
                                   E.rec.io_address + E.rec.io_blocks)>>
                    \o SubSeq(walbDiff, i + 1, Len(walbDiff))]_vars

\* an allzero record was added inside a normal entry of three blocks
C26_Witness ==
    /\ nAdded = 2
    /\ Len(walbDiff) = 3
    /\ lastAdd.rec.flags = "allzero"
    /\ walbDiff[2].rec = lastAdd.rec
    /\ walbDiff[1].rec.flags = "normal" /\ walbDiff[1].io.data = <<<<1, 0>>>>
    /\ walbDiff[3].rec.flags = "normal" /\ walbDiff[3].io.data = <<<<1, 2>>>>

\* the payloads of the pieces, one after the other
RECURSIVE ConcatData(_)
ConcatData(v) == IF v = <<>> THEN <<>> ELSE Head(v).data \o ConcatData(Tail(v))

\* splitAll(n) of the record and splitIoDataAll(io, n) of its IO data
\* give as many pieces, payload piece i is as long as record piece i
\* says, and the payload pieces together are the payload
SplitsCorrespond(rec, io, n) ==
    LET recV == splitAll(rec, n)
        ioV == splitIoDataAll(io, n)
    IN /\ Len(ioV) = Len(recV)
       /\ \A i \in 1..Len(ioV) :
             /\ i <= Len(recV)
             /\ Len(ioV[i].data) * LOGICAL_BLOCK_SIZE = recV[i].data_size
             /\ ioV[i].ioBlocks = recV[i].io_blocks
       /\ ConcatData(ioV) = io.data
       /\ ioV # <<>>

\* the split limits tried on the record of the last add
SplitLimitSet == 1..4

MaxMergeRecs == 2   \* records of one chain of input streams

\* Wdiff::currentAddress at the end of a stream; a value above every
\* address of the model stands for 2^64 - 1
UINT64_MAX == 1000000

\* a slip of DiffMerger::shouldMerge: the bound of the older streams is
\* not looked at
shouldMerge_noBound(rec, minAddr) ==
    rec.io_address < doneAddr_ + searchLen_

\* a slip of DiffMerger::shouldMerge: the search window is not looked at
shouldMerge_noWindow(rec, minAddr) ==
    endIoAddress(rec) <= minAddr

\* DiffMerger::shouldMerge
shouldMerge(rec, minAddr) ==
    /\ rec.io_address < doneAddr_ + searchLen_
    /\ endIoAddress(rec) <= minAddr

\* DiffMerger::mergeIo, on the scratch diff map mem
mergeIo(mem, rec, io) == DiffMemoryAdd(mem, rec, io, maxIoBlocks_)

\* Wdiff::currentAddress
currentAddress(wdiff) ==
    IF wdiff = <<>> THEN UINT64_MAX ELSE Head(wdiff).rec.io_address

\* the pops of one stream: while its front record should be merged
RECURSIVE popLoop(_, _, _, _)
popLoop(wdiff, mem, minAddr, pops) ==
    IF wdiff # <<>> /\ shouldMerge(Head(wdiff).rec, minAddr)
    THEN popLoop(Tail(wdiff), mergeIo(mem, Head(wdiff).rec, Head(wdiff).io),
                 minAddr,
                 Append(pops, [rec |-> Head(wdiff).rec, minAddr |-> minAddr,
                               doneAddr |-> doneAddr_,
                               searchLen |-> searchLen_]))
    ELSE [wdiff |-> wdiff, mem |-> mem, pops |-> pops]

\* DiffMerger::tryMoveToDiffMemory: one pass over the open streams, oldest
\* first, from stream k on
RECURSIVE tryMoveToDiffMemory(_, _, _, _, _)
tryMoveToDiffMemory(ws, k, mem, minAddr, pops) ==
    IF k > Len(ws)
    THEN [wdiffs |-> ws, mem |-> mem, minAddr |-> minAddr, pops |-> pops]
    ELSE LET r == popLoop(ws[k], mem, minAddr, pops)
         IN tryMoveToDiffMemory([ws EXCEPT ![k] = r.wdiff], k + 1, r.mem,
                                Min(minAddr, currentAddress(r.wdiff)), r.pops)

\* DiffMerger::removeEndedWdiffs
removeEndedWdiffs(ws) == SelectSeq(ws, LAMBDA w : w # <<>>)

\* a slip of DiffMerger::moveToMergedQueue: entries that start at or
\* before doneAddr leave the scratch map
moveToMergedQueue_byStart(mem, doneAddr) ==
    [out |-> SelectSeq(mem, LAMBDA e : e.rec.io_address <= doneAddr),
     mem |-> SelectSeq(mem, LAMBDA e : ~(e.rec.io_address <= doneAddr))]

\* DiffMerger::moveToMergedQueue: what leaves the scratch map, what stays
moveToMergedQueue(mem, doneAddr) ==
    [out |-> SelectSeq(mem, LAMBDA e : endIoAddress(e.rec) <= doneAddr),
     mem |-> SelectSeq(mem, LAMBDA e : ~(endIoAddress(e.rec) <= doneAddr))]

MergeAddrSet == 0..2
MergeBlockSet == 1..3
MergeFlags == {"normal", "discard"}
StreamLens == 0..2
NumStreams == 1..3
SearchLens == {1, 2, 4}
MergeMaxIoBlocksSet == {0, 1}

\* the records of one input stream: address-ordered and non-overlapping
StreamShapes ==
    {q \in UNION {[1..n -> [addr : MergeAddrSet, blks : MergeBlockSet,
                            flags : MergeFlags]] : n \in StreamLens} :
        \A i \in 1..(Len(q) - 1) : q[i].addr + q[i].blks <= q[i + 1].addr}

RECURSIVE TotalLen(_)
TotalLen(c) == IF c = <<>> THEN 0 ELSE Len(Head(c)) + TotalLen(Tail(c))

\* record i of stream s with its payload: block k reads <<s, i, k - 1>>
StreamRecIo(q, s, i) ==
    LET rec == DiffRecord(q.addr, q.blks, q.flags)
    IN [rec |-> rec,
        io |-> IoData(rec, IF isNormal(rec)
                           THEN [k \in 1..q.blks |-> <<s, i, k - 1>>]
                           ELSE <<>>)]

Chains ==
    {[s \in 1..Len(c) |-> [i \in 1..Len(c[s]) |-> StreamRecIo(c[s][i], s, i)]] :
        c \in {d \in UNION {[1..n -> StreamShapes] : n \in NumStreams} :
                  TotalLen(d) <= MaxMergeRecs}}

\* DiffMerger(initSearchLen), setMaxIoBlocks, addWdiffs
InitMerge ==
    /\ inputs \in Chains
    /\ wdiffs_ = inputs
    /\ diffMem_ = <<>>
    /\ mergedQ_ = <<>>
    /\ doneAddr_ = 0
    /\ searchLen_ \in SearchLens
    /\ maxIoBlocks_ \in MergeMaxIoBlocksSet
    /\ merged = <<>>
    /\ nBatch = 0
    /\ lastPops = <<>>
    /\ mstate = "run"
    /\ RedoIdle
    /\ DiffIdle
    /\ PackIdle
    /\ CsumIdle
    /\ ConvIdle
    /\ RecIdle
    /\ IoqIdle

\* getAndRemove with the output queue empty and streams open: one pass
\* (tryMoveToDiffMemory, doneAddr_, moveToMergedQueue, removeEndedWdiffs)
MoveToDiffMemory ==
    /\ mstate = "run"
    /\ mergedQ_ = <<>>
    /\ wdiffs_ # <<>>
    /\ LET p == tryMoveToDiffMemory(wdiffs_, 1, diffMem_, UINT64_MAX, <<>>)
           q == moveToMergedQueue(p.mem, p.minAddr)
           b == IF q.out = <<>> THEN nBatch ELSE nBatch + 1
       IN /\ wdiffs_' = removeEndedWdiffs(p.wdiffs)
          /\ doneAddr_' = p.minAddr
          /\ diffMem_' = q.mem
          /\ mergedQ_' = [k \in 1..Len(q.out) |->
                            [rec |-> q.out[k].rec, io |-> q.out[k].io,
                             batch |-> b]]
          /\ nBatch' = b
          /\ lastPops' = p.pops
    /\ UNCHANGED <<inputs, searchLen_, maxIoBlocks_, merged, mstate,
                   redoVars, diffVars, packVars, csumVars, convVars, recVars, ioqVars>>

\* getAndRemove with the output queue filled: returns its front
GetAndRemove ==
    /\ mstate = "run"
    /\ mergedQ_ # <<>>
    /\ merged' = Append(merged, Head(mergedQ_))
    /\ mergedQ_' = Tail(mergedQ_)
    /\ UNCHANGED <<inputs, wdiffs_, diffMem_, doneAddr_, searchLen_,
                   maxIoBlocks_, nBatch, lastPops, mstate, redoVars, diffVars, packVars, csumVars, convVars, recVars, ioqVars>>

\* getAndRemove with nothing left: returns false
GetAndRemoveEnd ==
    /\ mstate = "run"
    /\ mergedQ_ = <<>>
    /\ wdiffs_ = <<>>
    /\ mstate' = "end"
    /\ UNCHANGED <<inputs, wdiffs_, diffMem_, mergedQ_, doneAddr_, searchLen_,
                   maxIoBlocks_, merged, nBatch, lastPops, redoVars, diffVars, packVars, csumVars, convVars, recVars, ioqVars>>

NextMerge == MoveToDiffMemory \/ GetAndRemove \/ GetAndRemoveEnd

SpecMerge == InitMerge /\ [][NextMerge]_vars

\* the diff map after adding every record of a stream, in order
RECURSIVE AddStream(_, _)
AddStream(mem, wdiff) ==
    IF wdiff = <<>> THEN mem
    ELSE AddStream(DiffMemoryAdd(mem, Head(wdiff).rec, Head(wdiff).io,
                                 maxIoBlocks_), Tail(wdiff))

\* the diff map after adding all of S0, then all of S1, ...
RECURSIVE AddChain(_, _)
AddChain(mem, c) ==
    IF c = <<>> THEN mem ELSE AddChain(AddStream(mem, Head(c)), Tail(c))

Covers(e, x) == e.rec.io_address <= x /\ x < endIoAddress(e.rec)

\* what the newest input stream touching x carries for x
NewestAt(x) ==
    LET touching == {s \in 1..Len(inputs) :
                        \E i \in 1..Len(inputs[s]) : Covers(inputs[s][i], x)}
    IN IF touching = {} THEN <<"none">>
       ELSE LET s == CHOOSE t \in touching : \A u \in touching : u <= t
                i == CHOOSE j \in 1..Len(inputs[s]) : Covers(inputs[s][j], x)
            IN CellAt(inputs[s][i], x)

C10_MergeMonotonic ==
    \A i \in 1..(Len(merged) - 1) :
        /\ merged[i].rec.io_address < merged[i + 1].rec.io_address
        /\ endIoAddress(merged[i].rec) <= merged[i + 1].rec.io_address

\* records of two batches have been returned, pieces of a split record
\* among them
C10_Witness ==
    /\ mstate = "end"
    /\ maxIoBlocks_ = 1
    /\ \E i \in 1..(Len(merged) - 1) :
          /\ merged[i].batch < merged[i + 1].batch
          /\ endIoAddress(merged[i].rec) = merged[i + 1].rec.io_address
    /\ \E i \in 1..(Len(merged) - 1) :
          /\ merged[i].batch = merged[i + 1].batch
          /\ merged[i].io.data # <<>>
          /\ merged[i + 1].io.data # <<>>
          /\ merged[i].io.data[1][2] = merged[i + 1].io.data[1][2]
          /\ merged[i].io.data[1][1] = merged[i + 1].io.data[1][1]

\* the step is a pass of getAndRemove over the open streams
MergePass == mstate = "run" /\ mergedQ_ = <<>> /\ wdiffs_ # <<>>

\* C31: an entry is moved to the output queue only with its end at or
\* below doneAddr_; every record a later pass pops from any stream starts
\* at or after the end of every entry moved out before, so nothing read
\* later overlaps an entry already emitted; doneAddr_ never decreases.
C31_EmitSafety ==
    /\ [][mstate = "run" => doneAddr_' >= doneAddr_]_vars
    /\ [][MergePass =>
            /\ \A k \in 1..Len(mergedQ_') :
                  endIoAddress(mergedQ_'[k].rec) <= doneAddr_'
            /\ \A i \in 1..Len(lastPops') : \A k \in 1..Len(merged) :
                  /\ lastPops'[i].rec.io_address >= endIoAddress(merged[k].rec)
                  /\ endIoAddress(merged[k].rec) <= doneAddr_]_vars

\* a pass has popped a record that starts where an entry emitted by an
\* earlier pass ends
C31_Witness ==
    /\ mstate = "run"
    /\ merged # <<>> /\ lastPops # <<>>
    /\ nBatch >= 1
    /\ lastPops[1].rec.io_address = endIoAddress(merged[Len(merged)].rec)
    /\ lastPops[1].doneAddr > 0

\* C32: every record a pass pops had, when it was popped, its io_address
\* below doneAddr_ + searchLen_ and its end at or below the bound handed to
\* shouldMerge; the records of the open streams that start at or past
\* doneAddr_ + searchLen_ are not popped, and what a pass does not pop
\* stays in its stream.
C32_SearchWindow ==
    /\ [](mstate \in {"run", "end"} =>
            \A i \in 1..Len(lastPops) :
                /\ lastPops[i].rec.io_address
                      < lastPops[i].doneAddr + lastPops[i].searchLen
                /\ endIoAddress(lastPops[i].rec) <= lastPops[i].minAddr)
    /\ [][MergePass =>
            /\ \A i \in 1..Len(lastPops') :
                  /\ lastPops'[i].doneAddr = doneAddr_
                  /\ lastPops'[i].searchLen = searchLen_
                  /\ \E k \in 1..Len(wdiffs_) : \E j \in 1..Len(wdiffs_[k]) :
                        wdiffs_[k][j].rec = lastPops'[i].rec
            /\ TotalLen(wdiffs_') = TotalLen(wdiffs_) - Len(lastPops')
            /\ \A k \in 1..Len(wdiffs_) :
                  (/\ wdiffs_[k] # <<>>
                   /\ Head(wdiffs_[k]).rec.io_address >= doneAddr_ + searchLen_) =>
                      \E m \in 1..Len(wdiffs_') : wdiffs_'[m] = wdiffs_[k]]_vars

\* a pass has popped a record of a newer stream under the bound of an
\* older stream, whose front lies outside the window and stays unread
C32_Witness ==
    /\ mstate = "run"
    /\ Len(lastPops) = 1
    /\ lastPops[1].minAddr < UINT64_MAX
    /\ Len(wdiffs_) = 1
    /\ Head(wdiffs_[1]).rec.io_address = lastPops[1].minAddr
    /\ Head(wdiffs_[1]).rec.io_address
          >= lastPops[1].doneAddr + lastPops[1].searchLen

\* a pass over streams of which one still holds a record pops nothing and
\* leaves doneAddr_ where it is
MergeStalled ==
    /\ MergePass
    /\ \E k \in 1..Len(wdiffs_) : wdiffs_[k] # <<>>
    /\ LET p == tryMoveToDiffMemory(wdiffs_, 1, diffMem_, UINT64_MAX, <<>>)
       IN p.pops = <<>> /\ p.minAddr = doneAddr_

\* a call of getAndRemove changes something: it returns a record or
\* false, or its pass pops a record, moves doneAddr_, emits an entry or
\* closes a stream
MergeCanStep ==
    /\ mstate = "run"
    /\ \/ mergedQ_ # <<>>
       \/ wdiffs_ = <<>>
       \/ LET p == tryMoveToDiffMemory(wdiffs_, 1, diffMem_, UINT64_MAX, <<>>)
              q == moveToMergedQueue(p.mem, p.minAddr)
          IN \/ p.pops # lastPops
             \/ p.minAddr # doneAddr_
             \/ removeEndedWdiffs(p.wdiffs) # wdiffs_
             \/ q.out # <<>>
             \/ q.mem # diffMem_

\* the consumer goes on calling getAndRemove: WF_vars(NextMerge), with
\* ENABLED <<NextMerge>>_vars written out as MergeCanStep
SpecMergeLive ==
    /\ InitMerge
    /\ [][NextMerge]_vars
    /\ ([]<>(~MergeCanStep) \/ []<><<NextMerge>>_vars)

\* getAndRemove has returned false with everything read and handed out
MergeComplete ==
    /\ mstate = "end"
    /\ wdiffs_ = <<>> /\ diffMem_ = <<>> /\ mergedQ_ = <<>>
    /\ Content(merged) = Content(AddChain(<<>>, inputs))

\* The loop of spec 4.E with searchLen_ left at its initial value: a merge
\* either returns false in the end, and then every record has been popped,
\* every stream is closed and the scratch map and the output queue are
\* empty, or it reaches a pass that pops nothing and leaves doneAddr_
\* unchanged although a stream still holds a record, and every later pass
\* does the same (S0 = {[1,2)}, S1 = {[0,2)}, searchLen_ = 1).  Whether
\* DiffMerger::moveToDiffMemory gets out of such a pass, by enlarging
\* searchLen_, is in walb_diff_merge.cpp.
MergeEndsOrStalls ==
    /\ <>(MergeStalled \/ MergeComplete)
    /\ [][MergeStalled => MergeStalled']_vars
    /\ [](mstate = "end" => MergeComplete)
    /\ []~(MergeStalled /\ mstate = "end")

(***************************************************************************)
(* Log pack header (LogPackHeader): init, the three adds, updateLsid and   *)
(* shrink.  A uint64_t lsid is a number below UINT64_MAX + 1 and lsid      *)
(* sums wrap there; uint64_t(-1) is UINT64_MAX.                            *)
(***************************************************************************)
MaxPackRecs == 3    \* records that fit in the header block
MaxPackPb == 3      \* largest total_io_size of a pack [physical block]

\* ::max_n_log_record_in_sector
max_n_log_record_in_sector(pbs) == MaxPackRecs

MAX_TOTAL_IO_SIZE_IN_LOGPACK_HEADER == MaxPackPb

\* ::n_lb_in_pb
n_lb_in_pb(pbs) == pbs \div LOGICAL_BLOCK_SIZE

AddU64(a, b) == (a + b) % (UINT64_MAX + 1)

PackPbs == {LOGICAL_BLOCK_SIZE, 2 * LOGICAL_BLOCK_SIZE}
PackLsids == {0, 5, UINT64_MAX - 1, UINT64_MAX}
PackOffsets == {4}
PackSizes == 0..3

\* LogPackHeader::init
init(lsid) ==
    [logpack_lsid |-> lsid, total_io_size |-> 0, n_records |-> 0,
     n_padding |-> 0, record |-> <<>>]

\* the record the adds write at record[nRecords()]
newRecord(h, flags, offset, size) ==
    [flags |-> flags, offset |-> offset, io_size |-> size,
     lsid_local |-> h.total_io_size + 1,
     lsid |-> AddU64(h.logpack_lsid, h.total_io_size + 1)]

\* a slip of LogPackHeader::addNormalIo: the total size is not tested
addNormalIo_noTotalTest(h, offset, size) ==
    IF max_n_log_record_in_sector(pbs_) <= h.n_records
    THEN [h |-> h, ret |-> "false"]
    ELSE IF size = 0
    THEN [h |-> h, ret |-> "throw"]
    ELSE [h |-> [h EXCEPT
                   !.record = Append(@, newRecord(h, {"EXIST"}, offset, size)),
                   !.n_records = @ + 1,
                   !.total_io_size = @ + capacity_pb(pbs_, size)],
          ret |-> "true"]

\* LogPackHeader::addNormalIo
addNormalIo(h, offset, size) ==
    IF max_n_log_record_in_sector(pbs_) <= h.n_records
    THEN [h |-> h, ret |-> "false"]
    ELSE IF MAX_TOTAL_IO_SIZE_IN_LOGPACK_HEADER
                < h.total_io_size + capacity_pb(pbs_, size)
    THEN [h |-> h, ret |-> "false"]
    ELSE IF size = 0
    THEN [h |-> h, ret |-> "throw"]
    ELSE [h |-> [h EXCEPT
                   !.record = Append(@, newRecord(h, {"EXIST"}, offset, size)),
                   !.n_records = @ + 1,
                   !.total_io_size = @ + capacity_pb(pbs_, size)],
          ret |-> "true"]

\* a slip of LogPackHeader::addDiscardIo: the discard is counted in
\* total_io_size
addDiscardIo_counted(h, offset, size) ==
    IF max_n_log_record_in_sector(pbs_) <= h.n_records
    THEN [h |-> h, ret |-> "false"]
    ELSE IF size = 0
    THEN [h |-> h, ret |-> "throw"]
    ELSE [h |-> [h EXCEPT
                   !.record = Append(@, newRecord(h, {"EXIST", "DISCARD"},
                                                  offset, size)),
                   !.n_records = @ + 1,
                   !.total_io_size = @ + capacity_pb(pbs_, size)],
          ret |-> "true"]

\* LogPackHeader::addDiscardIo
addDiscardIo(h, offset, size) ==
    IF max_n_log_record_in_sector(pbs_) <= h.n_records
    THEN [h |-> h, ret |-> "false"]
    ELSE IF size = 0
    THEN [h |-> h, ret |-> "throw"]
    ELSE [h |-> [h EXCEPT
                   !.record = Append(@, newRecord(h, {"EXIST", "DISCARD"},
                                                  offset, size)),
                   !.n_records = @ + 1],
          ret |-> "true"]

\* LogPackHeader::addPadding
addPadding(h, size) ==
    IF max_n_log_record_in_sector(pbs_) <= h.n_records
    THEN [h |-> h, ret |-> "false"]
    ELSE IF MAX_TOTAL_IO_SIZE_IN_LOGPACK_HEADER
                < h.total_io_size + capacity_pb(pbs_, size)
    THEN [h |-> h, ret |-> "false"]
    ELSE IF 0 < h.n_padding
    THEN [h |-> h, ret |-> "false"]
    ELSE IF size % n_lb_in_pb(pbs_) # 0
    THEN [h |-> h, ret |-> "throw"]
    ELSE [h |-> [h EXCEPT
                   !.record = Append(@, newRecord(h, {"EXIST", "PADDING"},
                                                  0, size)),
                   !.n_records = @ + 1,
                   !.total_io_size = @ + capacity_pb(pbs_, size),
                   !.n_padding = @ + 1],
          ret |-> "true"]

\* LogPackHeader::isValid(false): ::is_valid_logpack_header_and_records
isValid(h) ==
    /\ h.n_records <= max_n_log_record_in_sector(pbs_)
    /\ \A i \in 1..h.n_records :
          /\ "EXIST" \in h.record[i].flags
          /\ ~({"PADDING", "DISCARD"} \subseteq h.record[i].flags)
          /\ h.record[i].lsid = AddU64(h.logpack_lsid, h.record[i].lsid_local)

\* a slip of LogPackHeader::updateLsid: the records keep their lsid
updateLsid_headerOnly(h, newLsid) ==
    IF newLsid = UINT64_MAX \/ h.logpack_lsid = newLsid
    THEN [h |-> h, ret |-> "true"]
    ELSE [h |-> [h EXCEPT !.logpack_lsid = newLsid], ret |-> "true"]

\* LogPackHeader::updateLsid
updateLsid(h, newLsid) ==
    IF newLsid = UINT64_MAX
    THEN [h |-> h, ret |-> "true"]
    ELSE IF h.logpack_lsid = newLsid
    THEN [h |-> h, ret |-> "true"]
    ELSE LET n == [h EXCEPT
                     !.logpack_lsid = newLsid,
                     !.record = [i \in 1..h.n_records |->
                                   [h.record[i] EXCEPT
                                      !.lsid = AddU64(newLsid,
                                                      h.record[i].lsid_local)]]]
         IN  [h |-> n, ret |-> IF isValid(n) THEN "true" ELSE "false"]

\* the loop of shrink over the records that stay
RECURSIVE shrinkTotal(_, _)
shrinkTotal(recs, n) ==
    IF n = 0 THEN 0
    ELSE shrinkTotal(recs, n - 1)
         + (IF "DISCARD" \notin recs[n].flags
            THEN capacity_pb(pbs_, recs[n].io_size) ELSE 0)

RECURSIVE shrinkPadding(_, _)
shrinkPadding(recs, n) ==
    IF n = 0 THEN 0
    ELSE shrinkPadding(recs, n - 1)
         + (IF "PADDING" \in recs[n].flags THEN 1 ELSE 0)

\* a slip of LogPackHeader::shrink: n_padding is not counted again
shrink_keepPadding(h, invalidIdx) ==
    [h EXCEPT !.record = SubSeq(@, 1, invalidIdx),
              !.n_records = invalidIdx,
              !.total_io_size = shrinkTotal(h.record, invalidIdx)]

\* LogPackHeader::shrink
shrink(h, invalidIdx) ==
    [h EXCEPT !.record = SubSeq(@, 1, invalidIdx),
              !.n_records = invalidIdx,
              !.total_io_size = shrinkTotal(h.record, invalidIdx),
              !.n_padding = shrinkPadding(h.record, invalidIdx)]

InitPack ==
    /\ pbs_ \in PackPbs
    /\ \E lsid \in PackLsids :
          /\ header_ = init(lsid)
          /\ packCall = [op |-> "init", arg |-> lsid, ret |-> "void"]
    /\ RedoIdle
    /\ DiffIdle
    /\ MergeIdle
    /\ CsumIdle
    /\ ConvIdle
    /\ RecIdle
    /\ IoqIdle

PackInit ==
    \E lsid \in PackLsids :
        /\ header_' = init(lsid)
        /\ packCall' = [op |-> "init", arg |-> lsid, ret |-> "void"]
        /\ UNCHANGED <<pbs_, redoVars, diffVars, mergeVars, csumVars, convVars, recVars, ioqVars>>

AddNormalIo ==
    \E offset \in PackOffsets, size \in PackSizes :
        LET r == addNormalIo(header_, offset, size) IN
        /\ header_' = r.h
        /\ packCall' = [op |-> "addNormalIo", arg |-> size, ret |-> r.ret]
        /\ UNCHANGED <<pbs_, redoVars, diffVars, mergeVars, csumVars, convVars, recVars, ioqVars>>

AddDiscardIo ==
    \E offset \in PackOffsets, size \in PackSizes :
        LET r == addDiscardIo(header_, offset, size) IN
        /\ header_' = r.h
        /\ packCall' = [op |-> "addDiscardIo", arg |-> size, ret |-> r.ret]
        /\ UNCHANGED <<pbs_, redoVars, diffVars, mergeVars, csumVars, convVars, recVars, ioqVars>>

AddPadding ==
    \E size \in PackSizes :
        LET r == addPadding(header_, size) IN
        /\ header_' = r.h
        /\ packCall' = [op |-> "addPadding", arg |-> size, ret |-> r.ret]
        /\ UNCHANGED <<pbs_, redoVars, diffVars, mergeVars, csumVars, convVars, recVars, ioqVars>>

UpdateLsid ==
    \E newLsid \in PackLsids :
        LET r == updateLsid(header_, newLsid) IN
        /\ header_' = r.h
        /\ packCall' = [op |-> "updateLsid", arg |-> newLsid, ret |-> r.ret]
        /\ UNCHANGED <<pbs_, redoVars, diffVars, mergeVars, csumVars, convVars, recVars, ioqVars>>

\* shrink is called with invalidIdx < nRecords() (its assert)
Shrink ==
    \E invalidIdx \in 0..(MaxPackRecs - 1) :
        /\ invalidIdx < header_.n_records
        /\ header_' = shrink(header_, invalidIdx)
        /\ packCall' = [op |-> "shrink", arg |-> invalidIdx, ret |-> "void"]
        /\ UNCHANGED <<pbs_, redoVars, diffVars, mergeVars, csumVars, convVars, recVars, ioqVars>>

NextPack ==
    \/ PackInit
    \/ AddNormalIo
    \/ AddDiscardIo
    \/ AddPadding
    \/ UpdateLsid
    \/ Shrink

SpecPack == InitPack /\ [][NextPack]_vars

\* PB that the records of kind other than discard among the first n take
RECURSIVE SumPb(_, _)
SumPb(recs, n) ==
    IF n = 0 THEN 0
    ELSE SumPb(recs, n - 1)
         + (IF "DISCARD" \in recs[n].flags THEN 0
            ELSE (recs[n].io_size * LOGICAL_BLOCK_SIZE + pbs_ - 1) \div pbs_)

PackRunning == packCall # <<>>

\* C17: in every header reached from init by adds, updateLsid and shrink,
\* total_io_size is the sum of capacity_pb(pbs, io_size) over the records
\* that are not discards, and a discard add leaves total_io_size as it was.
C17_TotalIoSize ==
    /\ [](PackRunning =>
            /\ header_.n_records = Len(header_.record)
            /\ header_.total_io_size = SumPb(header_.record, header_.n_records))
    /\ [][(PackRunning /\ packCall'.op = "addDiscardIo")
            => header_'.total_io_size = header_.total_io_size]_vars

\* after a shrink the header still holds a normal record and a discard
C17_Witness ==
    /\ PackRunning
    /\ packCall.op = "shrink"
    /\ header_.n_records = 2
    /\ header_.total_io_size > 0
    /\ \E i \in 1..2 : "DISCARD" \in header_.record[i].flags
    /\ \E i \in 1..2 : header_.record[i].flags = {"EXIST"}

\* C18: every record's lsid is logpack_lsid + lsid_local (in uint64_t
\* arithmetic) and its lsid_local is 1 + the PB of the records before it,
\* so lsid_local never decreases along the records and grows after every
\* record that carries blocks.
C18_RecordLsid ==
    PackRunning =>
        \A i \in 1..header_.n_records :
            LET rec == header_.record[i] IN
            /\ rec.lsid = (header_.logpack_lsid + rec.lsid_local) % (UINT64_MAX + 1)
            /\ rec.lsid_local = 1 + SumPb(header_.record, i - 1)
            /\ i > 1 =>
                  /\ header_.record[i - 1].lsid_local <= rec.lsid_local
                  /\ ( /\ "DISCARD" \notin header_.record[i - 1].flags
                       /\ header_.record[i - 1].io_size > 0 )
                        => header_.record[i - 1].lsid_local < rec.lsid_local

\* updateLsid has moved a pack of three records, one a discard, to
\* another lsid
C18_Witness ==
    /\ PackRunning
    /\ packCall.op = "updateLsid"
    /\ header_.n_records = 3
    /\ header_.logpack_lsid = packCall.arg
    /\ header_.record[1].lsid # 1
    /\ header_.record[3].lsid_local > 1
    /\ \E i \in 1..2 : "DISCARD" \in header_.record[i].flags

PaddingCount == Cardinality({i \in 1..header_.n_records :
                               "PADDING" \in header_.record[i].flags})

\* C19: n_padding is 0 or 1 and is the number of records with the PADDING
\* flag; addPadding on a header that has a padding returns false and adds
\* nothing.
C19_OnePadding ==
    /\ [](PackRunning =>
            /\ header_.n_padding \in {0, 1}
            /\ header_.n_padding = PaddingCount)
    /\ [][(PackRunning /\ packCall'.op = "addPadding" /\ header_.n_padding > 0)
            => (packCall'.ret = "false" /\ header_' = header_)]_vars

\* a second addPadding was refused though there was room for it
C19_Witness ==
    /\ PackRunning
    /\ packCall.op = "addPadding" /\ packCall.ret = "false"
    /\ header_.n_padding = 1
    /\ header_.n_records < MaxPackRecs
    /\ header_.total_io_size + packCall.arg <= MaxPackPb
    /\ packCall.arg % (pbs_ \div LOGICAL_BLOCK_SIZE) = 0

\* C20: a padding record, if the header has one, is its last record.
C20_PaddingLast ==
    PackRunning =>
        \A i \in 1..header_.n_records :
            "PADDING" \in header_.record[i].flags => i = header_.n_records

PackAdds == {"addNormalIo", "addDiscardIo", "addPadding"}

\* PB that the add of packCall' would put on total_io_size
AddedPb ==
    IF packCall'.op = "addDiscardIo" THEN 0
    ELSE (packCall'.arg * LOGICAL_BLOCK_SIZE + pbs_ - 1) \div pbs_

\* C21: an add on a header that has its maximum of records, or whose
\* total_io_size the record would take above the maximum, returns false;
\* an add that returns false leaves the header as it was; n_records and
\* total_io_size never exceed their maxima.
C21_PackFull ==
    /\ [](PackRunning =>
            /\ header_.n_records <= MaxPackRecs
            /\ header_.total_io_size <= MaxPackPb)
    /\ [][(PackRunning /\ packCall'.op \in PackAdds) =>
            /\ (header_.n_records >= MaxPackRecs
                \/ header_.total_io_size + AddedPb > MaxPackPb)
                  => packCall'.ret = "false"
            /\ packCall'.ret = "false" => header_' = header_]_vars

\* addNormalIo was refused for the total size on a header with room for
\* one more record
C21_Witness ==
    /\ PackRunning
    /\ packCall.op = "addNormalIo" /\ packCall.ret = "false"
    /\ 0 < header_.n_records /\ header_.n_records < MaxPackRecs
    /\ header_.total_io_size
         + (packCall.arg * LOGICAL_BLOCK_SIZE + pbs_ - 1) \div pbs_ > MaxPackPb

(***************************************************************************)
(* Header checksum.  The header block is a sequence of 32-bit words, the   *)
(* checksum field being the first; a 32-bit word is the pair of its high   *)
(* and low 16 bits, so that sums are taken mod 2^32.                       *)
(***************************************************************************)
BlockWords == 3     \* 32-bit words of the header block

W16 == 65536

AddU32(a, b) ==
    LET lo == a[2] + b[2]
    IN  <<(a[1] + b[1] + lo \div W16) % W16, lo % W16>>

\* cybozu::util::checksumPartial
RECURSIVE checksumPartial(_, _)
checksumPartial(data, csum) ==
    IF data = <<>> THEN csum
    ELSE checksumPartial(Tail(data), AddU32(csum, Head(data)))

\* cybozu::util::checksumFinish
checksumFinish(csum) == AddU32(<<W16 - 1 - csum[1], W16 - 1 - csum[2]>>, <<0, 1>>)

\* a slip of ::checksum: the last word of the block is left out
checksum_skipLast(data, salt) ==
    checksumFinish(checksumPartial(SubSeq(data, 1, Len(data) - 1), salt))

\* ::checksum
checksum(data, salt) == checksumFinish(checksumPartial(data, salt))

\* LogPackHeader::updateChecksum
updateChecksum(block, salt) ==
    LET zeroed == [block EXCEPT ![1] = <<0, 0>>]
    IN  [zeroed EXCEPT ![1] = checksum(zeroed, salt)]

\* LogPackHeader::isValid(true), the checksum part
isValidWithChecksum(block, salt) ==
    checksum([block EXCEPT ![1] = <<0, 0>>], salt) = block[1]

flipHalf(x, k) == IF (x \div (2 ^ k)) % 2 = 1 THEN x - 2 ^ k ELSE x + 2 ^ k

\* the word with bit k (0 the lowest) inverted
flipBit(w, k) ==
    IF k < 16 THEN <<w[1], flipHalf(w[2], k)>>
    ELSE <<flipHalf(w[1], k - 16), w[2]>>

WordSet == {<<0, 0>>, <<0, 1>>, <<0, W16 - 1>>, <<32768, 0>>, <<W16 - 1, W16 - 1>>}
SaltSet == {<<0, 0>>, <<4660, 22136>>, <<W16 - 1, W16 - 1>>}

InitCsum ==
    /\ block_ \in [1..BlockWords -> WordSet]
    /\ salt_ \in SaltSet
    /\ blockState = "built"
    /\ RedoIdle
    /\ DiffIdle
    /\ MergeIdle
    /\ PackIdle
    /\ ConvIdle
    /\ RecIdle
    /\ IoqIdle

\* LogPackHeader::writeTo
WriteTo ==
    /\ blockState = "built"
    /\ block_' = updateChecksum(block_, salt_)
    /\ blockState' = "written"
    /\ UNCHANGED <<salt_, redoVars, diffVars, mergeVars, packVars, convVars, recVars, ioqVars>>

\* one bit of the written block is inverted on the way to the reader
FlipOneBit ==
    /\ blockState = "written"
    /\ \E i \in 1..BlockWords, k \in 0..31 :
          block_' = [block_ EXCEPT ![i] = flipBit(@, k)]
    /\ blockState' = "flipped"
    /\ UNCHANGED <<salt_, redoVars, diffVars, mergeVars, packVars, convVars, recVars, ioqVars>>

\* LogPackHeader::readFrom of the block with the same salt
ReadBack ==
    /\ blockState \in {"written", "flipped"}
    /\ blockState' = IF isValidWithChecksum(block_, salt_)
                     THEN (IF blockState = "written" THEN "valid" ELSE "flipped valid")
                     ELSE (IF blockState = "written" THEN "invalid" ELSE "flipped invalid")
    /\ UNCHANGED <<block_, salt_, redoVars, diffVars, mergeVars, packVars, convVars, recVars, ioqVars>>

NextCsum ==
    \/ WriteTo
    \/ FlipOneBit
    \/ ReadBack

SpecCsum == InitCsum /\ [][NextCsum]_vars

\* C22: the block writeTo produces verifies with the same salt (and its
\* salted word sum, checksum field included, is 0 mod 2^32); the block with
\* any one bit inverted does not verify.
C22_ChecksumRoundTrip ==
    /\ blockState = "written" =>
          /\ isValidWithChecksum(block_, salt_)
          /\ checksum(block_, salt_) = <<0, 0>>
    /\ blockState = "flipped" =>
          /\ ~isValidWithChecksum(block_, salt_)
          /\ checksum(block_, salt_) # <<0, 0>>
    /\ blockState \notin {"invalid", "flipped valid"}

\* the reader has refused a block whose top bit of the last word was
\* inverted and whose sum carries out of the low half
C22_Witness ==
    /\ blockState = "flipped invalid"
    /\ salt_ = <<4660, 22136>>
    /\ block_[BlockWords] \in {<<32767, W16 - 1>>, <<0, 0>>}
    /\ block_[2] = <<0, W16 - 1>>

(***************************************************************************)
(* struct walb_diff_record with its flag bits, and the Record operations   *)
(* on it.                                                                  *)
(***************************************************************************)
WALB_DIFF_CMPR_NONE == 0

\* Record::init
RecordInit ==
    [io_address |-> 0, io_blocks |-> 0, flags |-> {"EXIST"},
     compression_type |-> 0, data_offset |-> 0, data_size |-> 0,
     checksum |-> 0]

\* Record::setNormal
setNormal(r) == [r EXCEPT !.flags = (@ \ {"ALLZERO"}) \ {"DISCARD"}]

\* Record::setAllZero
setAllZero(r) == [r EXCEPT !.flags = (@ \cup {"ALLZERO"}) \ {"DISCARD"}]

\* Record::setDiscard
setDiscard(r) == [r EXCEPT !.flags = (@ \ {"ALLZERO"}) \cup {"DISCARD"}]

(***************************************************************************)
(* The converter from wlogs to a wdiff.  The payload of a log record is    *)
(* its physical blocks, each a sequence of logical-block cells: 0 is a     *)
(* block of zero bytes, any other number a block with data.                *)
(***************************************************************************)
MaxConvRecs == 3    \* log records of one conversion, over all its wlogs
MaxWlogs == 2       \* wlogs read back to back by one conversion

\* LogRecord::isPadding
isPadding(rec) == "PADDING" \in rec.flags

\* LogRecord::isDiscard
isDiscard(rec) == "DISCARD" \in rec.flags

\* LogBlockShared::calcIsAllZero, its loop from block i on
RECURSIVE calcIsAllZeroLoop(_, _, _, _)
calcIsAllZeroLoop(pbs, blockS, i, remaining) ==
    IF ~(0 < remaining) THEN TRUE
    ELSE LET sz == Min(pbs, remaining)
         IN  IF \E c \in 1..(sz \div LOGICAL_BLOCK_SIZE) : blockS[i + 1][c] # 0
             THEN FALSE
             ELSE calcIsAllZeroLoop(pbs, blockS, i + 1, remaining - sz)

\* a slip of LogBlockShared::calcIsAllZero: only the first block is tested
calcIsAllZero_firstBlock(pbs, blockS, ioSizeLb) ==
    calcIsAllZeroLoop(pbs, blockS, 0,
                      Min(pbs, ioSizeLb * LOGICAL_BLOCK_SIZE))

\* LogBlockShared::calcIsAllZero
calcIsAllZero(pbs, blockS, ioSizeLb) ==
    calcIsAllZeroLoop(pbs, blockS, 0, ioSizeLb * LOGICAL_BLOCK_SIZE)

\* a slip of the copy loop of convertLogToDiff: every turn copies from
\* the first physical block
copyLoop_firstBlock(pbs, blockS, i, ioSizePb0, remaining) ==
    [c \in 1..(remaining \div LOGICAL_BLOCK_SIZE) |->
        blockS[1][((c - 1) % (pbs \div LOGICAL_BLOCK_SIZE)) + 1]]

\* convertLogToDiff, its copy loop from block i on: the cells put in buf
RECURSIVE copyLoop(_, _, _, _, _)
copyLoop(pbs, blockS, i, ioSizePb0, remaining) ==
    IF ~(i < ioSizePb0) THEN <<>>
    ELSE LET copySize == Min(pbs, remaining)
         IN  SubSeq(blockS[i + 1], 1, copySize \div LOGICAL_BLOCK_SIZE)
                \o copyLoop(pbs, blockS, i + 1, ioSizePb0, remaining - copySize)

\* DiffIo::set
DiffIoSet(mrec, data) ==
    [ioBlocks |-> IF mrec.flags \cap {"ALLZERO", "DISCARD"} = {}
                  THEN mrec.io_blocks ELSE 0,
     compressionType |-> mrec.compression_type,
     data |-> data]

\* convertLogToDiff: its return value and what it leaves in mrec and diffIo
convertLogToDiff(pbs, rec, blockS, mrec, diffIo) ==
    IF isPadding(rec) THEN [ret |-> FALSE, mrec |-> mrec, diffIo |-> diffIo]
    ELSE LET m0 == [RecordInit EXCEPT !.io_address = rec.offset,
                                      !.io_blocks = rec.io_size]
         IN
         IF isDiscard(rec)
         THEN LET m == [setDiscard(m0) EXCEPT !.data_size = 0]
              IN  [ret |-> TRUE, mrec |-> m, diffIo |-> DiffIoSet(m, <<>>)]
         ELSE IF calcIsAllZero(pbs, blockS, rec.io_size)
         THEN LET m == [setAllZero(m0) EXCEPT !.data_size = 0]
              IN  [ret |-> TRUE, mrec |-> m, diffIo |-> DiffIoSet(m, <<>>)]
         ELSE LET ioSizeB == rec.io_size * LOGICAL_BLOCK_SIZE
                  buf == copyLoop(pbs, blockS, 0, capacity_pb(pbs, rec.io_size),
                                  ioSizeB)
                  io == DiffIoSet(m0, buf)
              IN  [ret |-> TRUE,
                   mrec |-> [m0 EXCEPT !.compression_type = WALB_DIFF_CMPR_NONE,
                                       !.data_offset = 0,
                                       !.data_size = ioSizeB,
                                       !.checksum = <<"calcChecksum", buf>>],
                   diffIo |-> io]

\* the record and the IO as the diff map keeps them
MapRecord(mrec) ==
    [io_address |-> mrec.io_address, io_blocks |-> mrec.io_blocks,
     flags |-> IF "DISCARD" \in mrec.flags THEN "discard"
               ELSE IF "ALLZERO" \in mrec.flags THEN "allzero" ELSE "normal",
     data_size |-> mrec.data_size]

MapIo(diffIo) == [ioBlocks |-> diffIo.ioBlocks, data |-> diffIo.data]

ConvPbs == {LOGICAL_BLOCK_SIZE, 2 * LOGICAL_BLOCK_SIZE}
ConvUuids == {1, 2}
ConvLsids == {0, 5}
ConvMaxIoBlocks == {1, 65535}
ConvOffsets == 0..1
ConvSizes == 1..2

\* wlHeader of a wlog
WlogHeaders == [uuid : ConvUuids, beginLsid : ConvLsids, pbs : ConvPbs]

\* a slip of Converter::convertWlog: the uuid is not compared
checkWlogHeader_lsidOnly(lsid, uuid, wlHeader) ==
    IF lsid = UINT64_MAX THEN "first"
    ELSE IF lsid # wlHeader.beginLsid THEN "lsid mismatch."
    ELSE "ok"

\* Converter::convertWlog, what it makes of wlHeader
checkWlogHeader(lsid, uuid, wlHeader) ==
    IF lsid = UINT64_MAX THEN "first"
    ELSE IF lsid # wlHeader.beginLsid THEN "lsid mismatch."
    ELSE IF uuid # wlHeader.uuid THEN "Uuid mismatch."
    ELSE "ok"

\* the cells of record number n: none, all or all but the first with data
ConvCells(n, size) ==
    {[c \in 1..size |-> 0], [c \in 1..size |-> 10 * n + c],
     [c \in 1..size |-> IF c = 1 THEN 0 ELSE 10 * n + c]}

\* the cells laid out in physical blocks; the rest of the last block is
\* not part of the IO
ToBlocks(pbs, cells) ==
    LET per == pbs \div LOGICAL_BLOCK_SIZE
    IN  [b \in 1..capacity_pb(pbs, Len(cells)) |->
           [c \in 1..per |->
              IF (b - 1) * per + c <= Len(cells)
              THEN cells[(b - 1) * per + c] ELSE 99]]

\* the log records reader.readLog can return as record number n
ConvLogs(pbs, n) ==
    {[rec |-> [flags |-> {"EXIST"}, offset |-> o, io_size |-> Len(cells)],
      blockS |-> ToBlocks(pbs, cells)] :
        o \in ConvOffsets, cells \in UNION {ConvCells(n, sz) : sz \in ConvSizes}}
    \cup {[rec |-> [flags |-> {"EXIST", "DISCARD"}, offset |-> o, io_size |-> sz],
           blockS |-> <<>>] : o \in ConvOffsets, sz \in ConvSizes}
    \cup {[rec |-> [flags |-> {"EXIST", "PADDING"}, offset |-> 0, io_size |-> 1],
           blockS |-> ToBlocks(pbs, <<99>>)]}

NoDiffIo == [ioBlocks |-> 0, compressionType |-> WALB_DIFF_CMPR_NONE, data |-> <<>>]

InitConv ==
    /\ \E m \in ConvMaxIoBlocks :
          conv = [pc |-> "header", err |-> "none", maxIoBlocks |-> m,
                  lsid |-> UINT64_MAX, writtenBlocks |-> 0, walbDiff |-> <<>>,
                  uuid |-> 0, wlHeader |-> <<>>, nWlogs |-> 0, uuids |-> <<>>,
                  last |-> <<>>, out |-> "none"]
    /\ wlogIn = <<>>
    /\ RedoIdle
    /\ DiffIdle
    /\ MergeIdle
    /\ PackIdle
    /\ CsumIdle
    /\ RecIdle
    /\ IoqIdle

\* Converter::convertWlog up to its record loop, for a wlog that is there
ConvReadHeader ==
    /\ conv.pc = "header"
    /\ conv.nWlogs < MaxWlogs
    /\ \E wlHeader \in WlogHeaders :
          LET c1 == [conv EXCEPT !.wlHeader = wlHeader, !.nWlogs = @ + 1,
                                 !.uuids = Append(@, wlHeader.uuid)]
              chk == checkWlogHeader(conv.lsid, conv.uuid, wlHeader)
          IN  IF chk = "first"
              THEN conv' = [c1 EXCEPT !.uuid = wlHeader.uuid,
                                      !.lsid = wlHeader.beginLsid,
                                      !.pc = "records"]
              ELSE IF chk = "ok"
              THEN conv' = [c1 EXCEPT !.pc = "records"]
              ELSE conv' = [c1 EXCEPT !.pc = "error", !.err = chk]
    /\ UNCHANGED <<wlogIn, redoVars, diffVars, mergeVars, packVars, csumVars, recVars, ioqVars>>

\* one turn of the record loop of Converter::convertWlog
ConvertLog ==
    /\ conv.pc = "records"
    /\ Len(wlogIn) < MaxConvRecs
    /\ \E l \in ConvLogs(conv.wlHeader.pbs, Len(wlogIn) + 1) :
          LET r == convertLogToDiff(conv.wlHeader.pbs, l.rec, l.blockS,
                                    RecordInit, NoDiffIo)
          IN  /\ wlogIn' = Append(wlogIn, [rec |-> l.rec, blockS |-> l.blockS,
                                           pbs |-> conv.wlHeader.pbs])
              /\ conv' = [conv EXCEPT
                            !.last = r,
                            !.walbDiff =
                                IF r.ret
                                THEN DiffMemoryAdd(@, MapRecord(r.mrec),
                                                   MapIo(r.diffIo), conv.maxIoBlocks)
                                ELSE @,
                            !.writtenBlocks =
                                IF r.ret THEN @ + r.mrec.io_blocks ELSE @]
    /\ UNCHANGED <<redoVars, diffVars, mergeVars, packVars, csumVars, recVars, ioqVars>>

\* the end of Converter::convertWlog: reader.fetchNext() returns false
ConvEndWlog ==
    /\ conv.pc = "records"
    /\ \E endLsid \in ConvLsids :
          /\ conv.wlHeader.beginLsid <= endLsid
          /\ conv' = [conv EXCEPT !.lsid = endLsid, !.wlHeader = <<>>,
                                  !.pc = "header"]
    /\ UNCHANGED <<wlogIn, redoVars, diffVars, mergeVars, packVars, csumVars, recVars, ioqVars>>

\* reader.readHeader meets the end of the input: convertWlog returns false
\* and Converter::convert writes the diff out
ConvEof ==
    /\ conv.pc = "header"
    /\ conv' = [conv EXCEPT !.pc = "done", !.out = conv.walbDiff]
    /\ UNCHANGED <<wlogIn, redoVars, diffVars, mergeVars, packVars, csumVars, recVars, ioqVars>>

NextConv ==
    \/ ConvReadHeader
    \/ ConvertLog
    \/ ConvEndWlog
    \/ ConvEof

SpecConv == InitConv /\ [][NextConv]_vars

ConvRunning == conv # <<>>

\* the payload of the log record l, one cell per logical block
PayloadCells(l) ==
    LET per == l.pbs \div LOGICAL_BLOCK_SIZE
    IN  [c \in 1..l.rec.io_size |->
           l.blockS[((c - 1) \div per) + 1][((c - 1) % per) + 1]]

PayloadIsZero(l) == \A c \in 1..l.rec.io_size : PayloadCells(l)[c] = 0

\* C23: convertLogToDiff returns false exactly for padding records and
\* then emits nothing; otherwise it emits one record at rec.offset of
\* rec.io_size blocks: discard with no data for a discard, else allzero
\* with no data for a payload of zeros, else normal, uncompressed, with
\* data_size io_size * 512 and the payload as it is in the log; allzero
\* and discard are never set together.
C23_LogToDiff ==
    /\ [](ConvRunning /\ conv.last # <<>> =>
            LET l == wlogIn[Len(wlogIn)]
                r == conv.last
            IN  /\ r.ret = ("PADDING" \notin l.rec.flags)
                /\ ~r.ret => (r.mrec = RecordInit /\ r.diffIo = NoDiffIo)
                /\ r.ret =>
                     /\ r.mrec.io_address = l.rec.offset
                     /\ r.mrec.io_blocks = l.rec.io_size
                     /\ ~({"ALLZERO", "DISCARD"} \subseteq r.mrec.flags)
                     /\ IF "DISCARD" \in l.rec.flags
                        THEN /\ r.mrec.flags = {"EXIST", "DISCARD"}
                             /\ r.mrec.data_size = 0
                             /\ r.diffIo.data = <<>>
                        ELSE IF PayloadIsZero(l)
                        THEN /\ r.mrec.flags = {"EXIST", "ALLZERO"}
                             /\ r.mrec.data_size = 0
                             /\ r.diffIo.data = <<>>
                        ELSE /\ r.mrec.flags = {"EXIST"}
                             /\ r.mrec.compression_type = 0
                             /\ r.mrec.data_size = l.rec.io_size * 512
                             /\ r.diffIo.data = PayloadCells(l)
                             /\ r.diffIo.ioBlocks = l.rec.io_size)
    /\ [][(ConvRunning /\ wlogIn' # wlogIn) =>
            IF "PADDING" \in wlogIn'[Len(wlogIn')].rec.flags
            THEN /\ conv'.walbDiff = conv.walbDiff
                 /\ conv'.writtenBlocks = conv.writtenBlocks
            ELSE conv'.writtenBlocks
                     = conv.writtenBlocks + wlogIn'[Len(wlogIn')].rec.io_size]_vars

\* a record of two 512-byte physical blocks, the first of zeros and the
\* second with data, has been converted to a normal record
C23_Witness ==
    /\ ConvRunning /\ conv.last # <<>>
    /\ wlogIn[Len(wlogIn)].pbs = 512
    /\ wlogIn[Len(wlogIn)].rec.flags = {"EXIST"}
    /\ wlogIn[Len(wlogIn)].rec.io_size = 2
    /\ conv.last.ret
    /\ conv.last.mrec.flags = {"EXIST"}
    /\ conv.last.diffIo.data[1] = 0 /\ conv.last.diffIo.data[2] # 0

\* C24: a second or later wlog is taken only if its begin lsid is the lsid
\* the previous wlog ended at and its uuid is the first wlog's; otherwise
\* the conversion fails with the lsid or the uuid error, and a failed
\* conversion has written no diff.
C24_ConcatenatedWlogs ==
    /\ [](ConvRunning /\ conv.pc = "error" =>
            /\ conv.out = "none"
            /\ conv.err \in {"lsid mismatch.", "Uuid mismatch."}
            /\ conv.nWlogs >= 2)
    /\ [](ConvRunning /\ conv.out # "none" => conv.pc = "done")
    /\ [][(ConvRunning /\ conv.pc = "header" /\ conv.nWlogs >= 1
               /\ conv'.nWlogs = conv.nWlogs + 1) =>
            LET h == conv'.wlHeader IN
            /\ conv'.pc = "records"
                  <=> (h.beginLsid = conv.lsid /\ h.uuid = conv.uuids[1])
            /\ conv'.pc # "records" => conv'.pc = "error"
            /\ h.beginLsid # conv.lsid => conv'.err = "lsid mismatch."
            /\ (h.beginLsid = conv.lsid /\ h.uuid # conv.uuids[1])
                  => conv'.err = "Uuid mismatch."
            /\ conv'.walbDiff = conv.walbDiff]_vars
    /\ [][(ConvRunning /\ conv.pc = "error") => conv' = conv]_vars

\* the second wlog began where the first ended, after records were
\* converted, but had another uuid
C24_Witness ==
    /\ ConvRunning
    /\ conv.pc = "error" /\ conv.err = "Uuid mismatch."
    /\ conv.lsid = 5 /\ conv.wlHeader.beginLsid = 5
    /\ conv.walbDiff # <<>>

\* the last record of the log, padding aside, that covers the block x
LastCover(x) ==
    LET hit == {i \in 1..Len(wlogIn) :
                   /\ "PADDING" \notin wlogIn[i].rec.flags
                   /\ wlogIn[i].rec.offset <= x
                   /\ x < wlogIn[i].rec.offset + wlogIn[i].rec.io_size}
    IN  IF hit = {} THEN 0 ELSE CHOOSE i \in hit : \A j \in hit : j <= i

\* what the log says of the block x
LogContent(x) ==
    LET i == LastCover(x) IN
    IF i = 0 THEN <<"none">>
    ELSE IF "DISCARD" \in wlogIn[i].rec.flags THEN <<"discard">>
    ELSE IF PayloadIsZero(wlogIn[i]) THEN <<"allzero">>
    ELSE PayloadCells(wlogIn[i])[x - wlogIn[i].rec.offset + 1]

\* records of zeros at block 0, of data at block 1, of data at block 0
ScenarioS1 ==
    /\ Len(wlogIn) = 3
    /\ \A i \in 1..3 : wlogIn[i].rec.flags = {"EXIST"} /\ wlogIn[i].rec.io_size = 1
    /\ wlogIn[1].rec.offset = 0 /\ PayloadIsZero(wlogIn[1])
    /\ wlogIn[2].rec.offset = 1 /\ ~PayloadIsZero(wlogIn[2])
    /\ wlogIn[3].rec.offset = 0 /\ ~PayloadIsZero(wlogIn[3])

\* C25: the diff the converter builds and writes holds for every block the
\* content (data, allzero or discard) of the last record of the log,
\* padding aside, that covers it and nothing for a block no record
\* covers; records of zeros at 0, data at 1 and data at 0 give the two
\* records of the third and the second.
C25_ConverterLastWins ==
    ConvRunning =>
        /\ \A x \in ContentAddrs : Content(conv.walbDiff)[x] = LogContent(x)
        /\ conv.pc = "done" => conv.out = conv.walbDiff
        /\ (conv.pc = "done" /\ ScenarioS1) =>
              /\ Len(conv.out) = 2
              /\ conv.out[1].rec.io_address = 0 /\ conv.out[1].rec.flags = "normal"
              /\ conv.out[1].io.data = PayloadCells(wlogIn[3])
              /\ conv.out[2].rec.io_address = 1 /\ conv.out[2].rec.flags = "normal"
              /\ conv.out[2].io.data = PayloadCells(wlogIn[2])

\* the scenario has been converted and written out
C25_Witness ==
    /\ ConvRunning
    /\ conv.pc = "done"
    /\ ScenarioS1
    /\ Len(conv.out) = 2

(***************************************************************************)
(* One diff record (class Record / RecordRaw over struct walb_diff_record) *)
(* and the calls made on it.  The record is whatever a wdiff stream held,  *)
(* so every combination of the flags and of the sizes can come in.         *)
(***************************************************************************)
MaxRecBlocks == 4   \* io_blocks of the record, and the largest split limit

WALB_DIFF_CMPR_MAX == 4

RecFlagSets == SUBSET {"EXIST", "ALLZERO", "DISCARD"}
RecAddrs == {0, 5}
RecBlocks == 0..MaxRecBlocks
RecCmprs == {WALB_DIFF_CMPR_NONE, 1, WALB_DIFF_CMPR_MAX}
SplitLimits == 0..MaxRecBlocks

\* Record::exists
exists(r) == "EXIST" \in r.flags

\* Record::isAllZero
isAllZero(r) == "ALLZERO" \in r.flags

\* Record::isDiscard (of a diff record)
RecordIsDiscard(r) == "DISCARD" \in r.flags

\* Record::isNormal, over the flag bits
RecordIsNormal(r) == ~isAllZero(r) /\ ~RecordIsDiscard(r)

\* Record::isCompressed
isCompressed(r) == r.compression_type # WALB_DIFF_CMPR_NONE

\* Record::isValid
RecordIsValid(r) ==
    IF ~exists(r) THEN FALSE
    ELSE IF ~RecordIsNormal(r)
         THEN IF isAllZero(r) /\ RecordIsDiscard(r) THEN FALSE
              ELSE TRUE     \* dataSize() != 0 is logged only
    ELSE IF WALB_DIFF_CMPR_MAX <= r.compression_type THEN FALSE
    ELSE IF r.io_blocks = 0 THEN FALSE
    ELSE TRUE

\* RecordRaw::check, TRUE when it does not throw
check(r) == RecordIsValid(r)

\* the record as RecordRaw::splitAll looks at it: its normal / allzero /
\* discard kind, the other fields as they are
RecordRaw(r) ==
    [io_address |-> r.io_address, io_blocks |-> r.io_blocks,
     flags |-> MapRecord(r).flags, data_size |-> r.data_size,
     compression_type |-> r.compression_type]

InitRecord ==
    /\ \E f \in RecFlagSets, a \in RecAddrs, b \in RecBlocks, c \in RecCmprs,
          d \in {0, 1} :
          rec_ = [RecordInit EXCEPT
                    !.flags = f, !.io_address = a, !.io_blocks = b,
                    !.compression_type = c,
                    !.data_size = d * (IF b = 0 THEN 1 ELSE b) * LOGICAL_BLOCK_SIZE]
    /\ recCall = [op |-> "none", arg |-> 0, ret |-> "none", v |-> <<>>]
    /\ RedoIdle
    /\ DiffIdle
    /\ MergeIdle
    /\ PackIdle
    /\ CsumIdle
    /\ ConvIdle
    /\ IoqIdle

\* Record::init
RecInit ==
    /\ recCall.op # "init"
    /\ rec_' = RecordInit
    /\ recCall' = [op |-> "init", arg |-> 0, ret |-> "ok", v |-> <<>>]
    /\ UNCHANGED <<redoVars, diffVars, mergeVars, packVars, csumVars, convVars, ioqVars>>

\* Record::setNormal
SetNormal ==
    /\ rec_' = setNormal(rec_)
    /\ recCall' = [op |-> "setNormal", arg |-> 0, ret |-> "ok", v |-> <<>>]
    /\ UNCHANGED <<redoVars, diffVars, mergeVars, packVars, csumVars, convVars, ioqVars>>

\* Record::setAllZero
SetAllZero ==
    /\ rec_' = setAllZero(rec_)
    /\ recCall' = [op |-> "setAllZero", arg |-> 0, ret |-> "ok", v |-> <<>>]
    /\ UNCHANGED <<redoVars, diffVars, mergeVars, packVars, csumVars, convVars, ioqVars>>

\* Record::setDiscard
SetDiscard ==
    /\ rec_' = setDiscard(rec_)
    /\ recCall' = [op |-> "setDiscard", arg |-> 0, ret |-> "ok", v |-> <<>>]
    /\ UNCHANGED <<redoVars, diffVars, mergeVars, packVars, csumVars, convVars, ioqVars>>

\* Record::isValid
IsValid ==
    /\ recCall' = [op |-> "isValid", arg |-> 0,
                   ret |-> IF RecordIsValid(rec_) THEN "true" ELSE "false",
                   v |-> <<>>]
    /\ UNCHANGED <<rec_, redoVars, diffVars, mergeVars, packVars, csumVars, convVars, ioqVars>>

\* RecordRaw::splitAll(ioBlocks0).  With io_blocks = 0 the loop adds
\* nothing and assert(!v.empty()) fails: the call aborts, or returns the
\* empty vector in a build without assert().  Otherwise the first
\* v.emplace_back(*this) copies the record with RecordRaw's checking copy
\* constructor, which throws for a record that is not valid.
SplitAll ==
    \E ioBlocks0 \in SplitLimits :
        /\ \E out \in IF ioBlocks0 = 0 \/ isCompressed(rec_)
                      THEN {[ret |-> "throw", v |-> <<>>]}
                      ELSE IF rec_.io_blocks = 0
                      THEN {[ret |-> "abort", v |-> <<>>], [ret |-> "ok", v |-> <<>>]}
                      ELSE IF ~check(rec_)
                      THEN {[ret |-> "throw", v |-> <<>>]}
                      ELSE {[ret |-> "ok", v |-> splitAll(RecordRaw(rec_), ioBlocks0)]} :
              recCall' = [op |-> "splitAll", arg |-> ioBlocks0,
                          ret |-> out.ret, v |-> out.v]
        /\ UNCHANGED <<rec_, redoVars, diffVars, mergeVars, packVars, csumVars, convVars, ioqVars>>

NextRecord ==
    \/ RecInit
    \/ SetNormal
    \/ SetAllZero
    \/ SetDiscard
    \/ IsValid
    \/ SplitAll

SpecRecord == InitRecord /\ [][NextRecord]_vars

RecRunning == recCall # <<>>

\* ceil(a / b)
CeilDiv(a, b) == (a + b - 1) \div b

RECURSIVE SumIoBlocks(_)
SumIoBlocks(v) == IF v = <<>> THEN 0 ELSE Head(v).io_blocks + SumIoBlocks(Tail(v))

\* what C27 says of the call splitAll(n) just made on the record
SplitAllResult ==
    LET v == recCall.v
        n == recCall.arg
    IN /\ recCall.ret = "ok"
       /\ Len(v) = CeilDiv(rec_.io_blocks, n)
       /\ v[1].io_address = rec_.io_address
       /\ \A k \in 2..Len(v) :
             v[k].io_address = v[k - 1].io_address + v[k - 1].io_blocks
       /\ \A k \in 1..Len(v) :
             /\ v[k].io_blocks >= 1 /\ v[k].io_blocks <= n
             /\ v[k].flags = RecordRaw(rec_).flags
             /\ v[k].compression_type = rec_.compression_type
             /\ v[k].data_size = IF RecordIsNormal(rec_)
                                 THEN v[k].io_blocks * 512
                                 ELSE rec_.data_size
       /\ SumIoBlocks(v) = rec_.io_blocks

SplitAllCalled ==
    /\ RecRunning
    /\ recCall.op = "splitAll"
    /\ recCall.arg >= 1
    /\ rec_.io_blocks >= 1
    /\ ~isCompressed(rec_)

\* C27 as stated: splitAll(n) with n >= 1 on any uncompressed record of
\* io_blocks >= 1 returns the ceil(io_blocks / n) consecutive pieces.
C27_AsStated == SplitAllCalled => SplitAllResult

\* C27: splitAll(n) with n >= 1 on a valid uncompressed record of
\* io_blocks >= 1 returns ceil(io_blocks / n) records; the first starts at
\* the record's io_address and each next one where the one before ends;
\* each has io_blocks in 1..n and they sum to the record's io_blocks; each
\* keeps the record's normal / allzero / discard kind; data_size is
\* io_blocks * 512 in the pieces of a normal record and the record's own
\* otherwise.  On a record that is not valid the call throws.
C27_SplitAll ==
    SplitAllCalled =>
        IF RecordIsValid(rec_) THEN SplitAllResult ELSE recCall.ret = "throw"

\* a normal record of 4 blocks was split by 3 into pieces of 3 and 1
C27_Witness ==
    /\ RecRunning
    /\ recCall.op = "splitAll" /\ recCall.arg = 3 /\ recCall.ret = "ok"
    /\ rec_.io_blocks = 4 /\ rec_.io_address = 5 /\ RecordIsNormal(rec_)
    /\ Len(recCall.v) = 2
    /\ recCall.v[2].io_address = 8 /\ recCall.v[2].io_blocks = 1
    /\ recCall.v[2].data_size = 512

\* C30: a record isValid accepts has EXIST, not both ALLZERO and DISCARD,
\* and data_size = 0 unless it is normal; after a setNormal, setAllZero or
\* setDiscard call ALLZERO and DISCARD are not both set.
C30_RecordValidity ==
    /\ (RecRunning /\ recCall.op = "isValid" /\ recCall.ret = "true") =>
          /\ exists(rec_)
          /\ ~(isAllZero(rec_) /\ RecordIsDiscard(rec_))
          /\ (~RecordIsNormal(rec_) => rec_.data_size = 0)
    /\ (RecRunning /\ recCall.op \in {"setNormal", "setAllZero", "setDiscard"}) =>
          ~(isAllZero(rec_) /\ RecordIsDiscard(rec_))


(***************************************************************************)
(* class IoQueue on its own: add and pop, with IOs as redoNormalIo makes   *)
(* them (createIo, then setBlock with one buffer).  IO sizes are one       *)
(* logical block and half of maxIoSize_, so that the size limit is met     *)
(* after few adds; a new IO starts at the end of the one before or one     *)
(* logical block further, and so does its buffer.                          *)
(***************************************************************************)
MaxIoqAdds == 4     \* add calls on one queue

IoSizes == {LOGICAL_BLOCK_SIZE, maxIoSize_ \div 2}

InitIoQueue ==
    /\ ioQueue = <<>>
    /\ ioqCall = [op |-> "none", n |-> 0, iop |-> <<>>, before |-> <<>>,
                  end |-> 0, bufEnd |-> 0]
    /\ RedoIdle
    /\ DiffIdle
    /\ MergeIdle
    /\ PackIdle
    /\ CsumIdle
    /\ ConvIdle
    /\ RecIdle

\* tmpIoQ.add(iop) of redoNormalIo
IoqAdd ==
    /\ ioqCall # <<>>
    /\ ioqCall.n < MaxIoqAdds
    /\ \E size \in IoSizes, adjacent \in BOOLEAN, contig \in BOOLEAN :
          LET offset == IF adjacent THEN ioqCall.end
                        ELSE ioqCall.end + LOGICAL_BLOCK_SIZE
              addr == IF contig THEN ioqCall.bufEnd
                      ELSE ioqCall.bufEnd + LOGICAL_BLOCK_SIZE
              iop == NewIo(ioqCall.n, offset, size,
                           [addr |-> addr, data |-> <<<<ioqCall.n, 0>>>>])
          IN /\ ioQueue' = IoQueueAdd(ioQueue, iop)
             /\ ioqCall' = [op |-> "add", n |-> ioqCall.n + 1, iop |-> iop,
                            before |-> ioQueue, end |-> offset + size,
                            bufEnd |-> addr + size]
    /\ UNCHANGED <<redoVars, diffVars, mergeVars, packVars, csumVars, convVars, recVars>>

\* IoQueue::pop, as in the enqueue loop of prepareIos
IoqPop ==
    /\ ioqCall # <<>>
    /\ ioQueue # <<>>
    /\ ioQueue' = Tail(ioQueue)
    /\ ioqCall' = [ioqCall EXCEPT !.op = "pop", !.iop = Head(ioQueue),
                                  !.before = ioQueue]
    /\ UNCHANGED <<redoVars, diffVars, mergeVars, packVars, csumVars, convVars, recVars>>

NextIoQueue == IoqAdd \/ IoqPop

SpecIoQueue == InitIoQueue /\ [][NextIoQueue]_vars

\* C36: add merges the new IO into the last IO of the staging queue only
\* if the new IO starts where the last one ends, both hold a payload, the
\* new buffer starts where the last IO's data ends in memory and the two
\* sizes together are at most maxIoSize_ (1 MiB); the merged IO then
\* covers the union of the two ranges with the buffers of the last IO
\* followed by the new one's, and the rest of the queue is as before;
\* otherwise the new IO is appended as it is.  No IO of the queue is
\* larger than maxIoSize_.
C36_Coalescing ==
    /\ (ioqCall # <<>> /\ ioqCall.op = "add") =>
          LET q == ioqCall.before
              iop == ioqCall.iop
          IN IF q # <<>> /\ Len(ioQueue) = Len(q)
             THEN LET last == q[Len(q)]
                      m == ioQueue[Len(q)]
                  IN /\ last.offset + last.size = iop.offset
                     /\ last.blocks # <<>> /\ iop.blocks # <<>>
                     /\ last.blocks[1].addr + last.size = iop.blocks[1].addr
                     /\ last.size + iop.size <= 1024 * 1024
                     /\ m.offset = last.offset
                     /\ m.offset + m.size = iop.offset + iop.size
                     /\ m.blocks = last.blocks \o iop.blocks
                     /\ SubSeq(ioQueue, 1, Len(q) - 1) = SubSeq(q, 1, Len(q) - 1)
             ELSE ioQueue = Append(q, iop)
    /\ \A k \in 1..Len(ioQueue) : ioQueue[k].size <= 1024 * 1024

\* the last IO of the queue had grown to maxIoSize_ by a merge, and an IO
\* that starts where it ends, in a buffer right behind its data, was
\* appended, not merged
C36_Witness ==
    /\ ioqCall # <<>> /\ ioqCall.op = "add"
    /\ ioqCall.before # <<>>
    /\ LET last == ioqCall.before[Len(ioqCall.before)]
       IN /\ last.size = maxIoSize_
          /\ Len(last.blocks) = 2
          /\ last.offset + last.size = ioqCall.iop.offset
          /\ last.blocks[1].addr + last.size = ioqCall.iop.blocks[1].addr
    /\ Len(ioQueue) = Len(ioqCall.before) + 1

=============================================================================
